---- MODULE Spec2Model ----
(***************************************************************************)
(* Model of the x-post-analyzer scoring core (src/lib/scoring): the six    *)
(* dimension scorers, the weighted aggregator analyzePost and the          *)
(* suggestion generator.                                                   *)
(*                                                                         *)
(* Numbers.  JavaScript numbers are IEEE-754 doubles.  Every double that   *)
(* occurs in the scoring arithmetic is a multiple of 2^-56 below 2^7 (or,  *)
(* inside the decay formula, of 2^-(56+n)), so it is represented exactly   *)
(* as an integer in three limbs of 24 bits, <<lo, mid, hi>>, and every     *)
(* floating-point operation is the exact operation followed by rounding to *)
(* 53 significant bits, ties to even.                                      *)
(*                                                                         *)
(* Text.  A post is a sequence of tokens of the vocabulary Vocab joined by *)
(* single spaces.  Each token stands for one fixed string (table Tok); the *)
(* regular expressions of the source are evaluated on that string once and *)
(* recorded as match counts per token (tables named after the patterns).   *)
(***************************************************************************)
EXTENDS Integers, Sequences, FiniteSets, TLC

----------------------------------------------------------------------------
(* Bounds of the model *)

MaxTokens == 2

MaxRecentPostCount == 13

MaxHours == 25

\* hoursSinceLastPost is a real; it is carried in ticks of 1/HourScale hour
HourScale == 2

----------------------------------------------------------------------------
(* IEEE-754 double arithmetic on 24-bit limbs *)

RECURSIVE Pow2(_)
Pow2(n) == IF n = 0 THEN 1 ELSE 2 * Pow2(n - 1)

Limb == Pow2(24)

RECURSIVE BitLenInt(_)
BitLenInt(v) == IF v = 0 THEN 0 ELSE 1 + BitLenInt(v \div 2)

\* carry propagation; the limbs handed in may be negative or exceed Limb
Norm(a0, a1, a2) ==
    LET s1 == a1 + (a0 \div Limb)
    IN  << a0 % Limb, s1 % Limb, a2 + (s1 \div Limb) >>

BigAdd(x, y) == Norm(x[1] + y[1], x[2] + y[2], x[3] + y[3])

BigSub(x, y) == Norm(x[1] - y[1], x[2] - y[2], x[3] - y[3])

\* k <= 127
BigMulSmall(x, k) == Norm(x[1] * k, x[2] * k, x[3] * k)

\* k < 24
BigShiftLeft(x, k) ==
    LET cut == Pow2(24 - k)
        up  == Pow2(k)
    IN  << (x[1] % cut) * up,
           (x[2] % cut) * up + (x[1] \div cut),
           x[3] * up + (x[2] \div cut) >>

\* k < 24; exact when the k low bits are zero
BigShiftRight(x, k) ==
    LET cut == Pow2(k)
        up  == Pow2(24 - k)
    IN  << (x[1] \div cut) + (x[2] % cut) * up,
           (x[2] \div cut) + (x[3] % cut) * up,
           x[3] \div cut >>

BigBitLen(x) ==
    IF x[3] > 0 THEN 48 + BitLenInt(x[3])
    ELSE IF x[2] > 0 THEN 24 + BitLenInt(x[2])
    ELSE BitLenInt(x[1])

\* round to 53 significant bits, ties to even (the rounding of + - * on doubles)
Round53(x) ==
    LET len == BigBitLen(x)
    IN  IF len <= 53 THEN x
        ELSE LET p    == len - 53
                 unit == Pow2(p)
                 rem  == x[1] % unit
                 half == unit \div 2
                 odd  == (x[1] \div unit) % 2 = 1
                 up   == rem > half \/ (rem = half /\ odd)
             IN  Norm(x[1] - rem + (IF up THEN unit ELSE 0), x[2], x[3])

\* doubles at scale 2^56
FromInt(n) == << 0, 0, n * 256 >>

FloatAdd(x, y) == Round53(BigAdd(x, y))

FloatSub(x, y) == Round53(BigSub(x, y))

FloatMulInt(x, k) == Round53(BigMulSmall(x, k))

\* Math.round of a non-negative double at scale 2^56: floor(x + 1/2)
MathRound(x) == (x[3] + 128) \div 256

\* Math.round(q / d) for integers q >= 0, d > 0 whose quotient is exact in binary
MathRoundDiv(q, d) == (2 * q + d) \div (2 * d)

Min(a, b) == IF a < b THEN a ELSE b

Max(a, b) == IF a > b THEN a ELSE b

\* a scorer that returns its raw sum, without the final Math.max(0, Math.min(100, ..))
Clamp_none(score) == score

Clamp(score) == Max(0, Min(100, score))

----------------------------------------------------------------------------
(* Grade and colour mapping; every scorer file carries its own copy *)

\* engagementScore.ts
getGrade_engagement(score) ==
    IF score >= 85 THEN "A" ELSE IF score >= 70 THEN "B"
    ELSE IF score >= 55 THEN "C" ELSE IF score >= 40 THEN "D" ELSE "F"

getColor_engagement(score) ==
    IF score >= 85 THEN "#00ba7c" ELSE IF score >= 70 THEN "#1d9bf0"
    ELSE IF score >= 55 THEN "#ffd400" ELSE IF score >= 40 THEN "#ff7a00" ELSE "#f4212e"

\* redFlagScore.ts
getGrade_redFlag(score) ==
    IF score >= 85 THEN "A" ELSE IF score >= 70 THEN "B"
    ELSE IF score >= 55 THEN "C" ELSE IF score >= 40 THEN "D" ELSE "F"

getColor_redFlag(score) ==
    IF score >= 85 THEN "#00ba7c" ELSE IF score >= 70 THEN "#1d9bf0"
    ELSE IF score >= 55 THEN "#ffd400" ELSE IF score >= 40 THEN "#ff7a00" ELSE "#f4212e"

\* dwellTimeScore.ts
getGrade_dwellTime(score) ==
    IF score >= 85 THEN "A" ELSE IF score >= 70 THEN "B"
    ELSE IF score >= 55 THEN "C" ELSE IF score >= 40 THEN "D" ELSE "F"

getColor_dwellTime(score) ==
    IF score >= 85 THEN "#00ba7c" ELSE IF score >= 70 THEN "#1d9bf0"
    ELSE IF score >= 55 THEN "#ffd400" ELSE IF score >= 40 THEN "#ff7a00" ELSE "#f4212e"

\* authorDiversityScore.ts
getGrade_authorDiversity(score) ==
    IF score >= 85 THEN "A" ELSE IF score >= 70 THEN "B"
    ELSE IF score >= 55 THEN "C" ELSE IF score >= 40 THEN "D" ELSE "F"

getColor_authorDiversity(score) ==
    IF score >= 85 THEN "#00ba7c" ELSE IF score >= 70 THEN "#1d9bf0"
    ELSE IF score >= 55 THEN "#ffd400" ELSE IF score >= 40 THEN "#ff7a00" ELSE "#f4212e"

\* filterRiskScore.ts
getGrade_filterRisk(score) ==
    IF score >= 85 THEN "A" ELSE IF score >= 70 THEN "B"
    ELSE IF score >= 55 THEN "C" ELSE IF score >= 40 THEN "D" ELSE "F"

getColor_filterRisk(score) ==
    IF score >= 85 THEN "#00ba7c" ELSE IF score >= 70 THEN "#1d9bf0"
    ELSE IF score >= 55 THEN "#ffd400" ELSE IF score >= 40 THEN "#ff7a00" ELSE "#f4212e"

\* reachScore.ts
\* a copy whose first comparison is strict: 85 falls to B
getGrade_reach_strict(score) ==
    IF score > 85 THEN "A" ELSE IF score >= 70 THEN "B"
    ELSE IF score >= 55 THEN "C" ELSE IF score >= 40 THEN "D" ELSE "F"

getGrade_reach(score) ==
    IF score >= 85 THEN "A" ELSE IF score >= 70 THEN "B"
    ELSE IF score >= 55 THEN "C" ELSE IF score >= 40 THEN "D" ELSE "F"

getColor_reach(score) ==
    IF score >= 85 THEN "#00ba7c" ELSE IF score >= 70 THEN "#1d9bf0"
    ELSE IF score >= 55 THEN "#ffd400" ELSE IF score >= 40 THEN "#ff7a00" ELSE "#f4212e"

\* index.ts (aggregator)
getGrade(score) ==
    IF score >= 85 THEN "A" ELSE IF score >= 70 THEN "B"
    ELSE IF score >= 55 THEN "C" ELSE IF score >= 40 THEN "D" ELSE "F"

----------------------------------------------------------------------------
(* ScoreDetail and ScoreResult.  The description of a detail is carried as  *)
(* the tuple of the integers its template embeds.                          *)

Detail(factor, impact, description, weight) ==
    [factor |-> factor, impact |-> impact, description |-> description, weight |-> weight]

\* a check whose detail reports a weight the score was not changed by
Step_unweighted(add, detail) == [add |-> 0, details |-> << detail >>]

\* one check of a scorer: what it adds to the running score, and the details it pushes
Step(add, detail) == [add |-> add, details |-> << detail >>]

NoStep == [add |-> 0, details |-> << >>]

RECURSIVE SumAdds(_)
SumAdds(steps) == IF steps = << >> THEN 0 ELSE Head(steps).add + SumAdds(Tail(steps))

RECURSIVE AllDetails(_)
AllDetails(steps) == IF steps = << >> THEN << >> ELSE Head(steps).details \o AllDetails(Tail(steps))

\* an omitted argument or option field
Undefined == -1

----------------------------------------------------------------------------
(* authorDiversityScore.ts *)

\* DECAY_FACTOR = 0.5 = 2^-DecayShift
DecayShift == 1

\* FLOOR = 0.1
FLOOR == << 10066330, 10066329, 25 >>

\* (1 - FLOOR) * Math.pow(DECAY_FACTOR, n) + FLOOR, for n >= 1
DiversityMultiplier(postsIn24Hours) ==
    LET shift  == DecayShift * postsIn24Hours
        oneMinusFloor == FloatSub(FromInt(1), FLOOR)
        \* the product is exact: the same integer at scale 2^(56 + shift)
        sum    == Round53(BigAdd(oneMinusFloor, BigShiftLeft(FLOOR, shift)))
    IN  BigShiftRight(sum, shift)

\* a penalty of up to 60 points: Math.round((1 - multiplier) * 60)
DiversityPenalty_of60(postsIn24Hours) ==
    MathRound(FloatMulInt(FloatSub(FromInt(1), DiversityMultiplier(postsIn24Hours)), 60))

\* the penalty taken from the multiplier itself: Math.round(multiplier * 50)
DiversityPenalty_ofMultiplier(postsIn24Hours) ==
    MathRound(FloatMulInt(DiversityMultiplier(postsIn24Hours), 50))

\* Math.round((1 - multiplier) * 50)
DiversityPenalty(postsIn24Hours) ==
    MathRound(FloatMulInt(FloatSub(FromInt(1), DiversityMultiplier(postsIn24Hours)), 50))

\* Math.round(multiplier * 100)
DiversityVisibility(postsIn24Hours) ==
    MathRound(FloatMulInt(DiversityMultiplier(postsIn24Hours), 100))

\* the decay formula is evaluated once per post count
PenaltyTable == [n \in 1..MaxRecentPostCount |-> DiversityPenalty(n)]

VisibilityTable == [n \in 1..MaxRecentPostCount |-> DiversityVisibility(n)]

\* lines 23-60: the post-count branch
DiversityCountCheck(postsIn24Hours) ==
    IF postsIn24Hours = 0
    THEN Step(0, Detail("First Post", "positive", << >>, 0))
    ELSE LET penalty == PenaltyTable[postsIn24Hours]
         IN  IF postsIn24Hours <= 3
             THEN Step(-penalty, Detail("Moderate Posting", "neutral",
                         << postsIn24Hours, VisibilityTable[postsIn24Hours], penalty >>, -penalty))
             ELSE IF postsIn24Hours <= 6
             THEN Step(-penalty, Detail("Frequent Posting", "negative",
                         << postsIn24Hours, penalty >>, -penalty))
             ELSE Step(-penalty, Detail("Over-Posting", "negative",
                         << postsIn24Hours, penalty >>, -penalty))

\* the spacing boost given from one hour on
DiversityTimeCheck_from1(hoursSinceLastPost) ==
    IF hoursSinceLastPost >= 1 * HourScale /\ hoursSinceLastPost < 24 * HourScale
    THEN LET boost == Min(MathRoundDiv(hoursSinceLastPost, 2 * HourScale), 10)
         IN  Step(boost, Detail("Post Spacing", "positive", << hoursSinceLastPost, boost >>, boost))
    ELSE IF hoursSinceLastPost >= 24 * HourScale
    THEN Step(15, Detail("Fresh Return", "positive", << >>, 15))
    ELSE IF hoursSinceLastPost < 1 * HourScale
    THEN Step(-10, Detail("Rapid Posting", "negative", << >>, -10))
    ELSE NoStep

\* lines 62-90: the time-since-last-post branch; hours in ticks of 1/HourScale h
DiversityTimeCheck(hoursSinceLastPost) ==
    IF hoursSinceLastPost >= 4 * HourScale /\ hoursSinceLastPost < 24 * HourScale
    THEN LET boost == Min(MathRoundDiv(hoursSinceLastPost, 2 * HourScale), 10)
         IN  Step(boost, Detail("Post Spacing", "positive", << hoursSinceLastPost, boost >>, boost))
    ELSE IF hoursSinceLastPost >= 24 * HourScale
    THEN Step(15, Detail("Fresh Return", "positive", << >>, 15))
    ELSE IF hoursSinceLastPost < 1 * HourScale
    THEN Step(-10, Detail("Rapid Posting", "negative", << >>, -10))
    ELSE NoStep

\* the recommendation given from 10 posts on: postsIn24Hours >= 10
DiversityRecommendation_from10(postsIn24Hours) ==
    IF postsIn24Hours >= 10
    THEN Step(0, Detail("Recommendation", "neutral", << >>, 0))
    ELSE NoStep

\* lines 92-100
DiversityRecommendation(postsIn24Hours) ==
    IF postsIn24Hours > 10
    THEN Step(0, Detail("Recommendation", "neutral", << >>, 0))
    ELSE NoStep

calculateAuthorDiversityScore(recentPostCountArg, hoursSinceLastPostArg) ==
    LET recentPostCount    == IF recentPostCountArg = Undefined THEN 0 ELSE recentPostCountArg
        hoursSinceLastPost == IF hoursSinceLastPostArg = Undefined
                              THEN 24 * HourScale ELSE hoursSinceLastPostArg
        steps == << DiversityCountCheck(recentPostCount),
                    DiversityTimeCheck(hoursSinceLastPost),
                    DiversityRecommendation(recentPostCount) >>
        score == Clamp(100 + SumAdds(steps))
    IN  [score   |-> score,
         grade   |-> getGrade_authorDiversity(score),
         label   |-> "Author Diversity",
         color   |-> getColor_authorDiversity(score),
         details |-> AllDetails(steps)]

----------------------------------------------------------------------------
(* The vocabulary.  A text is a sequence of tokens joined by single spaces.  *)
(*   url      https://x.com/a/status/1                                      *)
(*   hook     thoughts?                                                     *)
(*   caps     forty times the letter A                                      *)
(*   tags2    #ai #ml                                                       *)
(*   tags6    #a #b #c #d #e #f                                             *)
(*   mentions @a @b                                                         *)
(*   emoji    three U+1F525 (two UTF-16 code units each)                    *)
(*   platform youtube                                                       *)
(*   muted    crypto nft giveaway                                           *)
(*   fill     the quick brown fox jumps over the lazy dog near the old mill *)
(*   long     I think this is the clearest way to explain the idea, but     *)
(*            what do you think? please tell me whether it helps            *)
(*   nl       a line feed                                                   *)
(*   personal i am sure i have just lost my keys                            *)
(*   essay    5 tips i learned while writing a thread about how to grow a   *)
(*            startup: the best advice is to publish every single day,      *)
(*            measure what readers do with each post, keep the posts that   *)
(*            50% of them finish, and drop the rest without regret, because *)
(*            "nobody reads a wall of text" and the numbers will tell you   *)
(*            so long before your friends do...                             *)
(*   bait     follow back!!!                                                *)
(*   promo    buy now at bit.ly/x sale sale                                 *)
(*   spam     airdrop idiots kill xxx copy paste                            *)
(*   toxic    AIRDROP IDIOTS FOLLOW BACK!!! KILL XXX COPY PASTE CRYPTO NFT  *)
(*            WEB3 YOUTUBE TIKTOK BIT.LY/X #A #B #C #D #E #F http://A       *)
(*            http://B http://C                                             *)
(* Each table below is one regular expression (or string measure) of the   *)
(* source evaluated on each token string: a count table maps a token to    *)
(* its number of matches (absent = 0), a test table is the set of tokens   *)
(* the expression matches.  No expression of the source matches across the *)
(* space that separates two tokens of this vocabulary.                     *)

Vocab == {"url", "hook", "caps", "tags2", "tags6", "mentions", "emoji", "platform", "muted", "fill", "long", "take", "nl", "personal", "essay", "bait", "promo", "spam", "toxic"}

\* text.length of the token (UTF-16 code units)
TokenLength == [url |-> 24, hook |-> 9, caps |-> 40, tags2 |-> 7, tags6 |-> 17, mentions |-> 5, emoji |-> 6, platform |-> 7, muted |-> 19, fill |-> 61, long |-> 108, take |-> 65, nl |-> 1, personal |-> 34, essay |-> 332, bait |-> 14, promo |-> 29, spam |-> 34, toxic |-> 134]

\* whitespace characters inside the token: /\s/g
TokenWhitespace == [tags2 |-> 1, tags6 |-> 5, mentions |-> 1, muted |-> 2, fill |-> 12, long |-> 21, take |-> 12, nl |-> 1, personal |-> 8, essay |-> 62, bait |-> 1, promo |-> 5, spam |-> 5, toxic |-> 22]

\* words of the token: trim().split(/\s+/)
TokenWords == [url |-> 1, hook |-> 1, caps |-> 1, tags2 |-> 2, tags6 |-> 6, mentions |-> 2, emoji |-> 1, platform |-> 1, muted |-> 3, fill |-> 13, long |-> 22, take |-> 13, personal |-> 9, essay |-> 63, bait |-> 2, promo |-> 6, spam |-> 6, toxic |-> 23]

\* tokens that are whitespace only (the newline)
BlankTokens == {"nl"}

\* tokens that end a line: split('\n')
NewlineTokens == {"nl"}

\* /\?/g
questionMarks == [hook |-> 1, long |-> 1, take |-> 1]

\* ctaPatterns: matches per pattern
ctaPatterns ==
    << [x \in {} |-> 0],
       [hook |-> 1, long |-> 1],
       [long |-> 1],
       [bait |-> 1, toxic |-> 1],
       [x \in {} |-> 0] >>

\* emotionalPatterns: matches per pattern
emotionalPatterns ==
    << [essay |-> 1],
       [x \in {} |-> 0],
       [x \in {} |-> 0] >>

\* /@\w+/g
mentionPattern == [mentions |-> 2]

\* threadIndicators
threadIndicators == {"essay"}

\* /\b\d+\s*(ways|tips|things|reasons|steps|lessons)\b/gi
hasNumbersPattern == {"essay"}

\* storyIndicators
storyIndicators == {"essay"}

\* /[A-Z]/g
upperCaseLetters == [caps |-> 40, long |-> 1, toxic |-> 79]

\* /#\w+/g
hashtagPattern == [tags2 |-> 2, tags6 |-> 6, toxic |-> 6]

\* /https?:\/\/\S+/g
linkPattern == [url |-> 1, toxic |-> 3]

\* /[!?]{3,}/g
repeatedPunctuationPattern == [bait |-> 1, toxic |-> 1]

\* cryptoSpam
cryptoSpam == {"spam", "toxic"}

\* engagementBait
engagementBait == {"bait", "toxic"}

\* divisivePatterns
divisivePatterns == {"spam", "toxic"}

\* /[\u{1F300}-\u{1F9FF}]/gu (code points)
emojiPattern == [emoji |-> 3]

\* hookPatterns 1, 3, 4: attention word, digit or quote at the start
hookStartPatterns == {"essay"}

\* hookPatterns 2, /^[A-Z]/
startsUpperCase == {"caps", "long", "toxic"}

\* hookPatterns 2: the first of . ! ? in the token
firstPunctuation == [url |-> "other", hook |-> "question", long |-> "question", take |-> "question", essay |-> "other", bait |-> "other", promo |-> "other", toxic |-> "other"]

\* curiosityPatterns 1
curiosityWords == {"long"}

\* curiosityPatterns 2, /\.\.\.$/
endsWithEllipsis == {"essay"}

\* curiosityPatterns 3, the arrow characters: in no token of the vocabulary
pointsDownPattern == {}

\* hasQuote
quotePattern == {"essay"}

\* hasStats
statsPattern == {"essay"}

\* COMMONLY_MUTED_PATTERNS: matches per pattern
COMMONLY_MUTED_PATTERNS ==
    << [muted |-> 2, toxic |-> 3],
       [x \in {} |-> 0],
       [x \in {} |-> 0],
       [x \in {} |-> 0],
       [muted |-> 1] >>

\* shortenerPatterns
shortenerPatterns == {"promo", "toxic"}

\* duplicatePatterns
duplicatePatterns ==
    << {"spam", "toxic"},
       {} >>

\* vfTriggerPatterns
vfTriggerPatterns ==
    << {"spam", "toxic"},
       {"spam", "toxic"} >>

\* promoPatterns: matches per pattern
promoPatterns ==
    << [promo |-> 1],
       [promo |-> 2] >>

\* platformPatterns
platformPatterns == [platform |-> 1, toxic |-> 2]

\* /@\w+/
hasMentionsPattern == {"mentions"}

\* broadTopics
broadTopics ==
    << {"tags2"},
       {"essay"},
       {},
       {"essay"} >>

\* engagingFormat
engagingFormat ==
    << {"hook", "long", "take"},
       {"essay"},
       {"essay"} >>

\* personalPatterns
personalPatterns == [personal |-> 4]

\* /https?:\/\/[^\s]+/g
urlPattern == [url |-> 1, toxic |-> 3]

\* length of the token after replace(/https?:\/\/[^\s]+/g, '')
TokenLengthWithoutUrls == [url |-> 0, hook |-> 9, caps |-> 40, tags2 |-> 7, tags6 |-> 17, mentions |-> 5, emoji |-> 6, platform |-> 7, muted |-> 19, fill |-> 61, long |-> 108, take |-> 65, nl |-> 1, personal |-> 34, essay |-> 332, bait |-> 14, promo |-> 29, spam |-> 34, toxic |-> 110]

\* text.includes('?')
hasQuestionPattern == {"hook", "long", "take"}

\* hasOpinion
hasOpinionPattern == {"long", "take"}

\* hasEngagementHook
hasEngagementHookPattern == {"hook", "long"}

mutedTerms == << "crypto", "nft", "web3", "airdrop", "giveaway", "dm me" >>

\* terms of mutedTerms that text.toLowerCase().includes
mutedTermsFound == [muted |-> {"crypto", "nft", "giveaway"}, spam |-> {"airdrop"}, toxic |-> {"crypto", "nft", "web3", "airdrop"}]

Texts == UNION { [1..n -> Vocab] : n \in 0..MaxTokens }

----------------------------------------------------------------------------
(* Regular expressions and string measures on texts *)

Lookup(table, token) == IF token \in DOMAIN table THEN table[token] ELSE 0

\* matches of a global pattern found from token position `from` on
RECURSIVE CountFrom(_, _, _)
CountFrom(pattern, text, from) ==
    IF from >= Len(text) THEN 0
    ELSE Lookup(pattern, text[from + 1]) + CountFrom(pattern, text, from + 1)

\* (text.match(/.../g) || []).length, the pattern being a literal of the call
MatchCount(pattern, text) == CountFrom(pattern, text, 0)

\* patterns.forEach(p => { const m = text.match(p); if (m) count += m.length })
RECURSIVE MatchCountAll(_, _)
MatchCountAll(patterns, text) ==
    IF patterns = << >> THEN 0
    ELSE MatchCount(Head(patterns), text) + MatchCountAll(Tail(patterns), text)

\* pattern.test(text), the pattern being a literal of the call (lastIndex 0)
Test(pattern, text) == \E i \in DOMAIN text : text[i] \in pattern

\* number of patterns of a list that test true
RECURSIVE TestCount(_, _)
TestCount(patterns, text) ==
    IF patterns = << >> THEN 0
    ELSE (IF Test(Head(patterns), text) THEN 1 ELSE 0) + TestCount(Tail(patterns), text)

\* text.length
TextLength(text) ==
    IF text = << >> THEN 0 ELSE CountFrom(TokenLength, text, 0) + Len(text) - 1

----------------------------------------------------------------------------
(* engagementScore.ts *)

EngagementQuestions(text) ==
    LET questionCount == MatchCount(questionMarks, text)
        boost == Min(questionCount * 8, 20)
    IN  IF questionCount > 0
        THEN Step(boost, Detail("Questions", "positive", << questionCount, boost >>, boost))
        ELSE NoStep

EngagementCallToAction(text) ==
    LET ctaCount == MatchCountAll(ctaPatterns, text)
        boost == Min(ctaCount * 5, 15)
    IN  IF ctaCount > 0
        THEN Step(boost, Detail("Call-to-Action", "positive", << boost >>, boost))
        ELSE NoStep

EngagementEmotional(text) ==
    LET emotionalCount == MatchCountAll(emotionalPatterns, text)
        boost == Min(emotionalCount * 6, 15)
    IN  IF emotionalCount > 0
        THEN Step(boost, Detail("Emotional Language", "positive", << boost >>, boost))
        ELSE NoStep

\* the mentions check with a penalty that grows with the number of mentions
EngagementMentions_perMention(text) ==
    LET mentions == MatchCount(mentionPattern, text)
    IN  IF mentions > 0 /\ mentions <= 3
        THEN Step(mentions * 3, Detail("Mentions", "positive", << mentions, mentions * 3 >>, mentions * 3))
        ELSE IF mentions > 3
        THEN Step(-5 * mentions, Detail("Too Many Mentions", "negative", << mentions, -5 * mentions >>, -5 * mentions))
        ELSE NoStep

EngagementMentions(text) ==
    LET mentions == MatchCount(mentionPattern, text)
    IN  IF mentions > 0 /\ mentions <= 3
        THEN Step(mentions * 3, Detail("Mentions", "positive", << mentions, mentions * 3 >>, mentions * 3))
        ELSE IF mentions > 3
        THEN Step(-5, Detail("Too Many Mentions", "negative", << mentions, -5 >>, -5))
        ELSE NoStep

EngagementThread(text) ==
    IF Test(threadIndicators, text)
    THEN Step(10, Detail("Thread Format", "positive", << >>, 10))
    ELSE NoStep

EngagementList(text) ==
    IF Test(hasNumbersPattern, text)
    THEN Step(8, Detail("List Format", "positive", << >>, 8))
    ELSE NoStep

EngagementStory(text) ==
    IF Test(storyIndicators, text)
    THEN Step(7, Detail("Personal Story", "positive", << >>, 7))
    ELSE NoStep

calculateEngagementScore(text) ==
    LET steps == << EngagementQuestions(text), EngagementCallToAction(text),
                    EngagementEmotional(text), EngagementMentions(text),
                    EngagementThread(text), EngagementList(text), EngagementStory(text) >>
        score == Clamp(50 + SumAdds(steps))
    IN  [score   |-> score,
         grade   |-> getGrade_engagement(score),
         label   |-> "Engagement Potential",
         color   |-> getColor_engagement(score),
         details |-> AllDetails(steps)]

----------------------------------------------------------------------------
(* redFlagScore.ts.  A ratio count / max(length, 1) > 0.5 of two integers    *)
(* below 2^53 holds for the doubles exactly when 2 * count > max(length, 1). *)
(* The percentage shown in the description of Excessive Caps is not carried. *)

\* the caps check with the length threshold of another check: text.length > 50
RedFlagCaps_over50(text) ==
    LET caps == MatchCount(upperCaseLetters, text)
    IN  IF 2 * caps > Max(TextLength(text), 1) /\ TextLength(text) > 50
        THEN Step(-20, Detail("Excessive Caps", "negative", << -20 >>, -20))
        ELSE NoStep

RedFlagCaps(text) ==
    LET caps == MatchCount(upperCaseLetters, text)
    IN  IF 2 * caps > Max(TextLength(text), 1) /\ TextLength(text) > 10
        THEN Step(-20, Detail("Excessive Caps", "negative", << -20 >>, -20))
        ELSE NoStep

RedFlagHashtags(text) ==
    LET hashtags == MatchCount(hashtagPattern, text)
    IN  IF hashtags > 5
        THEN Step(-15, Detail("Too Many Hashtags", "negative", << hashtags, -15 >>, -15))
        ELSE IF hashtags > 3
        THEN Step(-5, Detail("Many Hashtags", "negative", << hashtags, -5 >>, -5))
        ELSE NoStep

RedFlagLinks(text) ==
    LET links == MatchCount(linkPattern, text)
    IN  IF links > 2
        THEN Step(-15, Detail("Multiple Links", "negative", << links, -15 >>, -15))
        ELSE NoStep

RedFlagPunctuation(text) ==
    IF MatchCount(repeatedPunctuationPattern, text) > 0
    THEN Step(-10, Detail("Excessive Punctuation", "negative", << -10 >>, -10))
    ELSE NoStep

RedFlagSpam(text) ==
    IF Test(cryptoSpam, text)
    THEN Step(-25, Detail("Spam Pattern", "negative", << -25 >>, -25))
    ELSE NoStep

RedFlagBait(text) ==
    IF Test(engagementBait, text)
    THEN Step(-20, Detail("Engagement Bait", "negative", << -20 >>, -20))
    ELSE NoStep

RedFlagDivisive(text) ==
    IF Test(divisivePatterns, text)
    THEN Step(-15, Detail("Divisive Language", "negative", << -15 >>, -15))
    ELSE NoStep

RedFlagEmoji(text) ==
    LET emojis == MatchCount(emojiPattern, text)
    IN  IF 2 * emojis > Max(TextLength(text), 1) /\ TextLength(text) > 5
        THEN Step(-10, Detail("Too Many Emojis", "negative", << -10 >>, -10))
        ELSE NoStep

\* the clean detail pushed whatever the checks reported
RedFlagClean_always(details) == << Detail("Clean Content", "positive", << >>, 0) >>

\* lines 124-132: details.length === 0
RedFlagClean(details) ==
    IF Len(details) = 0
    THEN << Detail("Clean Content", "positive", << >>, 0) >>
    ELSE << >>

calculateRedFlagScore(text) ==
    LET steps == << RedFlagCaps(text), RedFlagHashtags(text), RedFlagLinks(text),
                    RedFlagPunctuation(text), RedFlagSpam(text), RedFlagBait(text),
                    RedFlagDivisive(text), RedFlagEmoji(text) >>
        score == Clamp(100 + SumAdds(steps))
    IN  [score   |-> score,
         grade   |-> getGrade_redFlag(score),
         label   |-> "Red Flag Risk",
         color   |-> getColor_redFlag(score),
         details |-> AllDetails(steps) \o RedFlagClean(AllDetails(steps))]

----------------------------------------------------------------------------
(* dwellTimeScore.ts *)

\* text.trim(): blank tokens and their separators go from both ends
RECURSIVE TrimLeft(_)
TrimLeft(text) ==
    IF text = << >> THEN << >>
    ELSE IF Head(text) \in BlankTokens THEN TrimLeft(Tail(text)) ELSE text

RECURSIVE TrimRight(_)
TrimRight(text) ==
    IF text = << >> THEN << >>
    ELSE IF text[Len(text)] \in BlankTokens THEN TrimRight(SubSeq(text, 1, Len(text) - 1)) ELSE text

Trim(text) == TrimRight(TrimLeft(text))

\* text.split('\n')[0].trim()
FirstLine(text) ==
    LET breaks == { i \in DOMAIN text : text[i] \in NewlineTokens }
        stop   == IF breaks = {} THEN Len(text) + 1
                  ELSE CHOOSE i \in breaks : \A j \in breaks : i <= j
    IN  Trim(SubSeq(text, 1, stop - 1))

\* text.split('\n').filter(l => l.trim().length > 0).length
LineCount(text) ==
    Cardinality({ i \in DOMAIN text :
        /\ text[i] \notin BlankTokens
        /\ \A j \in 1..(i - 1) :
              (\A k \in j..(i - 1) : text[k] \notin NewlineTokens) => text[j] \in BlankTokens })

\* text.trim().split(/\s+/).filter(w => w.length > 0).length
WordCount(text) == MatchCount(TokenWords, text)

\* /^[A-Z][^.!?]*[?]/ on the first line: the first of . ! ? is a question mark
OpensWithQuestion(line) ==
    /\ line # << >>
    /\ line[1] \in startsUpperCase
    /\ \E i \in DOMAIN line :
          /\ line[i] \in DOMAIN firstPunctuation
          /\ firstPunctuation[line[i]] = "question"
          /\ \A j \in 1..(i - 1) : line[j] \notin DOMAIN firstPunctuation

\* hookPatterns.some(p => p.test(firstLine))
HasStrongHook(line) ==
    \/ line # << >> /\ line[1] \in hookStartPatterns
    \/ OpensWithQuestion(line)

\* the length check skipped for a text without characters
DwellLength_skipEmpty(text) ==
    LET charCount == TextLength(text)
    IN  IF charCount >= 100 /\ charCount <= 280
        THEN Step(15, Detail("Optimal Length", "positive", << charCount, 15 >>, 15))
        ELSE IF charCount < 50 /\ charCount > 0
        THEN Step(-15, Detail("Too Short", "negative", << charCount, -15 >>, -15))
        ELSE IF charCount > 280
        THEN LET boost == IF charCount > 500 THEN 5 ELSE 10
             IN  Step(boost, Detail("Extended Content", "positive", << boost >>, boost))
        ELSE NoStep

DwellLength(text) ==
    LET charCount == TextLength(text)
    IN  IF charCount >= 100 /\ charCount <= 280
        THEN Step(15, Detail("Optimal Length", "positive", << charCount, 15 >>, 15))
        ELSE IF charCount < 50
        THEN Step(-15, Detail("Too Short", "negative", << charCount, -15 >>, -15))
        ELSE IF charCount > 280
        THEN LET boost == IF charCount > 500 THEN 5 ELSE 10
             IN  Step(boost, Detail("Extended Content", "positive", << boost >>, boost))
        ELSE NoStep

DwellLineBreaks(text) ==
    LET lineCount == LineCount(text)
        boost == Min(lineCount * 3, 12)
    IN  IF lineCount > 1
        THEN Step(boost, Detail("Line Breaks", "positive", << lineCount, boost >>, boost))
        ELSE NoStep

DwellHook(text) ==
    LET firstLine == FirstLine(text)
    IN  IF HasStrongHook(firstLine) /\ TextLength(firstLine) > 10
        THEN Step(10, Detail("Strong Hook", "positive", << >>, 10))
        ELSE NoStep

\* avgWordLength = charCount / max(wordCount, 1), compared with 4, 6 and 8
DwellReadability(text) ==
    LET charCount == TextLength(text)
        words == Max(WordCount(text), 1)
    IN  IF charCount >= 4 * words /\ charCount <= 6 * words
        THEN Step(8, Detail("Good Readability", "positive", << >>, 8))
        ELSE IF charCount > 8 * words
        THEN Step(-5, Detail("Complex Words", "negative", << >>, -5))
        ELSE NoStep

HasCuriosityGap(text) ==
    \/ Test(curiosityWords, text)
    \/ text # << >> /\ text[Len(text)] \in endsWithEllipsis
    \/ Test(pointsDownPattern, text)

DwellCuriosity(text) ==
    IF HasCuriosityGap(text)
    THEN Step(8, Detail("Curiosity Gap", "positive", << >>, 8))
    ELSE NoStep

DwellEmoji(text) ==
    LET emojiCount == MatchCount(emojiPattern, text)
    IN  IF emojiCount >= 1 /\ emojiCount <= 3
        THEN Step(5, Detail("Strategic Emojis", "positive", << emojiCount, 5 >>, 5))
        ELSE NoStep

DwellData(text) ==
    IF Test(quotePattern, text) \/ Test(statsPattern, text)
    THEN Step(7, Detail("Data/Quotes", "positive", << >>, 7))
    ELSE NoStep

calculateDwellTimeScore(text) ==
    LET steps == << DwellLength(text), DwellLineBreaks(text), DwellHook(text),
                    DwellReadability(text), DwellCuriosity(text), DwellEmoji(text),
                    DwellData(text) >>
        score == Clamp(50 + SumAdds(steps))
    IN  [score   |-> score,
         grade   |-> getGrade_dwellTime(score),
         label   |-> "Dwell Time",
         color   |-> getColor_dwellTime(score),
         details |-> AllDetails(steps)]

----------------------------------------------------------------------------
(* filterRiskScore.ts.  COMMONLY_MUTED_PATTERNS are module-level RegExp     *)
(* objects with the g flag: their lastIndex outlives a call.                *)

\* pattern.exec(text) in place of text.match(pattern): the search starts at the
\* pattern's lastIndex, finds at most one match and leaves lastIndex behind it
StringMatch_exec(pattern, text, lastIndex) ==
    LET found == { i \in DOMAIN text : i > lastIndex /\ Lookup(pattern, text[i]) > 0 }
    IN  IF found = {} THEN [count |-> 0, lastIndex |-> 0]
        ELSE [count |-> 1, lastIndex |-> CHOOSE i \in found : \A j \in found : i <= j]

\* text.match(pattern) for a global pattern: lastIndex is set to 0, every match
\* is collected, and lastIndex is 0 again when the search is exhausted
StringMatch(pattern, text, lastIndex) ==
    [count |-> CountFrom(pattern, text, 0), lastIndex |-> 0]

\* lines 21-26: COMMONLY_MUTED_PATTERNS.forEach(...)
MutedMatches(text, lastIndex) ==
    [i \in DOMAIN COMMONLY_MUTED_PATTERNS |->
        StringMatch(COMMONLY_MUTED_PATTERNS[i], text, lastIndex[i])]

RECURSIVE SumCounts(_, _)
SumCounts(matches, i) ==
    IF i = 0 THEN 0 ELSE matches[i].count + SumCounts(matches, i - 1)

FilterMuted(text, lastIndex) ==
    LET matches == MutedMatches(text, lastIndex)
        mutedKeywordMatches == SumCounts(matches, Len(matches))
        penalty == Min(mutedKeywordMatches * 10, 30)
    IN  IF mutedKeywordMatches > 0
        THEN Step(-penalty, Detail("Commonly Muted Terms", "negative",
                                   << mutedKeywordMatches, penalty >>, -penalty))
        ELSE NoStep

FilterHashtags(text) ==
    LET hashtags == MatchCount(hashtagPattern, text)
    IN  IF hashtags > 10
        THEN Step(-25, Detail("Hashtag Spam", "negative", << hashtags, 25 >>, -25))
        ELSE NoStep

FilterShorteners(text) ==
    IF Test(shortenerPatterns, text)
    THEN Step(-15, Detail("Link Shorteners", "negative", << >>, -15))
    ELSE NoStep

FilterDuplicate(text) ==
    IF \E i \in DOMAIN duplicatePatterns : Test(duplicatePatterns[i], text)
    THEN Step(-10, Detail("Duplicate Risk", "negative", << >>, -10))
    ELSE NoStep

FilterVisibility(text) ==
    LET vfTriggers == TestCount(vfTriggerPatterns, text)
        penalty == vfTriggers * 20
    IN  IF vfTriggers > 0
        THEN Step(-penalty, Detail("Content Warning", "negative", << vfTriggers, penalty >>, -penalty))
        ELSE NoStep

FilterPromo(text) ==
    LET promoCount == MatchCountAll(promoPatterns, text)
    IN  IF promoCount > 2
        THEN Step(-15, Detail("Heavy Promotion", "negative", << >>, -15))
        ELSE NoStep

\* the distinct names (lower case) that platformPatterns matches in the token
platformNames == [platform |-> {"youtube"}, toxic |-> {"youtube", "tiktok"}]

\* the penalty given for more than one distinct name
FilterPlatforms_distinct(text) ==
    IF Cardinality(UNION { Lookup(platformNames, text[i]) : i \in {j \in DOMAIN text : text[j] \in DOMAIN platformNames} }) > 1
    THEN Step(-10, Detail("External Platforms", "negative", << >>, -10))
    ELSE NoStep

FilterPlatforms(text) ==
    LET platformMatches == MatchCount(platformPatterns, text)
    IN  IF platformMatches > 1
        THEN Step(-10, Detail("External Platforms", "negative", << >>, -10))
        ELSE NoStep

\* lines 141-149: details.length === 0
FilterClean(details) ==
    IF Len(details) = 0
    THEN << Detail("Low Filter Risk", "positive", << >>, 0) >>
    ELSE << >>

\* the result, and the lastIndex the call leaves in COMMONLY_MUTED_PATTERNS
calculateFilterRiskScore(text, lastIndex) ==
    LET steps == << FilterMuted(text, lastIndex), FilterHashtags(text), FilterShorteners(text),
                    FilterDuplicate(text), FilterVisibility(text), FilterPromo(text),
                    FilterPlatforms(text) >>
        score == Clamp(100 + SumAdds(steps))
        matches == MutedMatches(text, lastIndex)
    IN  [result |-> [score   |-> score,
                     grade   |-> getGrade_filterRisk(score),
                     label   |-> "Filter Risk",
                     color   |-> getColor_filterRisk(score),
                     details |-> AllDetails(steps) \o FilterClean(AllDetails(steps))],
         lastIndex |-> [i \in DOMAIN matches |-> matches[i].lastIndex]]

----------------------------------------------------------------------------
(* reachScore.ts *)

\* the in-network sub-score weighted like the out-of-network one
InNetworkWeight_sixTenths == << 10066328, 10066329, 153 >>

\* the doubles 0.4 and 0.6
InNetworkWeight == << 6710888, 6710886, 102 >>

OutOfNetworkWeight == << 10066328, 10066329, 153 >>

\* one check of the reach scorer: what it adds to either sub-score
ReachStep(addIn, addOut, detail) == [addIn |-> addIn, addOut |-> addOut, details |-> << detail >>]

NoReachStep == [addIn |-> 0, addOut |-> 0, details |-> << >>]

RECURSIVE SumIn(_)
SumIn(steps) == IF steps = << >> THEN 0 ELSE Head(steps).addIn + SumIn(Tail(steps))

RECURSIVE SumOut(_)
SumOut(steps) == IF steps = << >> THEN 0 ELSE Head(steps).addOut + SumOut(Tail(steps))

ReachRecency == ReachStep(15, 0, Detail("Recency Boost", "positive", << >>, 15))

ReachConversation(text) ==
    IF Test(hasMentionsPattern, text)
    THEN ReachStep(10, 0, Detail("Conversation", "positive", << >>, 10))
    ELSE NoReachStep

ReachTopics(text) ==
    LET topicMatches == TestCount(broadTopics, text)
        boost == Min(topicMatches * 10, 25)
    IN  IF topicMatches > 0
        THEN ReachStep(0, boost, Detail("Trending Topics", "positive", << topicMatches, boost >>, boost))
        ELSE NoReachStep

ReachHashtags(text) ==
    LET hashtags == MatchCount(hashtagPattern, text)
    IN  IF hashtags >= 1 /\ hashtags <= 3
        THEN ReachStep(0, 10, Detail("Strategic Hashtags", "positive", << hashtags, 10 >>, 10))
        ELSE NoReachStep

ReachFormat(text) ==
    LET formatBonus == 5 * TestCount(engagingFormat, text)
    IN  IF formatBonus > 0
        THEN ReachStep(0, formatBonus, Detail("Engaging Format", "positive", << formatBonus >>, formatBonus))
        ELSE NoReachStep

ReachFollowers(followerCount) ==
    IF followerCount > 10000
    THEN ReachStep(0, 15, Detail("Authority Signal", "positive", << >>, 15))
    ELSE IF followerCount > 1000
    THEN ReachStep(0, 8, Detail("Growing Authority", "positive", << >>, 8))
    ELSE NoReachStep

ReachPersonal(text) ==
    LET personalCount == MatchCount(personalPatterns, text)
    IN  IF personalCount > 3
        THEN ReachStep(5, -10, Detail("Personal Content", "neutral", << >>, 0))
        ELSE NoReachStep

\* the checks 1 to 6 in the order the function runs them
ReachSteps(text, followerCount) ==
    << ReachRecency, ReachConversation(text), ReachTopics(text), ReachHashtags(text),
       ReachFormat(text), ReachFollowers(followerCount), ReachPersonal(text) >>

calculateReachScore(text, followerCountArg) ==
    LET followerCount == IF followerCountArg = Undefined THEN 1000 ELSE followerCountArg
        steps == ReachSteps(text, followerCount)
        inNetworkScore    == Clamp(50 + SumIn(steps))
        outOfNetworkScore == Clamp(50 + SumOut(steps))
        combinedScore == MathRound(FloatAdd(FloatMulInt(InNetworkWeight, inNetworkScore),
                                            FloatMulInt(OutOfNetworkWeight, outOfNetworkScore)))
        summary == Detail("Reach Summary", "neutral", << inNetworkScore, outOfNetworkScore >>, 0)
    IN  [score   |-> combinedScore,
         grade   |-> getGrade_reach(combinedScore),
         label   |-> "Reach Potential",
         color   |-> getColor_reach(combinedScore),
         details |-> << summary >> \o AllDetails(steps)]

----------------------------------------------------------------------------
(* index.ts: generateSuggestions *)

Suggestion(type, category, text, priority) ==
    [type |-> type, category |-> category, text |-> text, priority |-> priority]

\* text.replace(/https?:\/\/[^\s]+/g, '').trim().length
WithoutUrlsLength(text) ==
    LET solid == { i \in DOMAIN text :
                      text[i] \notin BlankTokens /\ TokenLengthWithoutUrls[text[i]] > 0 }
    IN  IF solid = {} THEN 0
        ELSE LET first == CHOOSE i \in solid : \A j \in solid : i <= j
                 last  == CHOOSE i \in solid : \A j \in solid : j <= i
             IN  CountFrom(TokenLengthWithoutUrls, SubSeq(text, first, last), 0) + (last - first)

\* text.replace(/\s/g, '').length
NonSpaceLength(text) ==
    TextLength(text) - (MatchCount(TokenWhitespace, text) + Max(Len(text) - 1, 0))

\* mutedTerms.filter(term => text.toLowerCase().includes(term))
FoundMutedTerms(text) ==
    SelectSeq(mutedTerms,
              LAMBDA term : \E i \in DOMAIN text :
                  text[i] \in DOMAIN mutedTermsFound /\ term \in mutedTermsFound[text[i]])

priorityOrder == [high |-> 0, medium |-> 1, low |-> 2]

\* a sort that puts an element before the elements it compares equal to
RECURSIVE InsertByPriority_unstable(_, _)
InsertByPriority_unstable(sorted, s) ==
    IF sorted = << >> THEN << s >>
    ELSE IF priorityOrder[Head(sorted).priority] - priorityOrder[s.priority] < 0
         THEN << Head(sorted) >> \o InsertByPriority_unstable(Tail(sorted), s)
         ELSE << s >> \o sorted

\* Array.prototype.sort with the comparator of lines 256-259: a stable sort,
\* elements that compare equal keep their order
RECURSIVE InsertByPriority(_, _)
InsertByPriority(sorted, s) ==
    IF sorted = << >> THEN << s >>
    ELSE IF priorityOrder[Head(sorted).priority] - priorityOrder[s.priority] <= 0
         THEN << Head(sorted) >> \o InsertByPriority(Tail(sorted), s)
         ELSE << s >> \o sorted

RECURSIVE SortByPriority(_)
SortByPriority(suggestions) ==
    IF suggestions = << >> THEN << >>
    ELSE InsertByPriority(SortByPriority(SubSeq(suggestions, 1, Len(suggestions) - 1)),
                          suggestions[Len(suggestions)])

\* lines 94-114: the three suggestions of a link-only post, returned unsorted
\* (categories are carried without their leading pictograph)
LinkOnlySuggestions ==
    << Suggestion("warning", "Critical Issue", << "just a link" >>, "high"),
       Suggestion("improvement", "Algorithm Tip", << "replies 13.5x" >>, "high"),
       Suggestion("improvement", "Reach", << "external links reduce reach by 80%" >>, "high") >>

\* the checks without the one for a missing question (lines 131-139)
ContentSuggestions_questionOptional(text, authorDiversity, filterRisk) ==
    LET textWithoutUrls == WithoutUrlsLength(text)
        urls            == MatchCount(urlPattern, text)
        isMostlyLink    == urls > 0 /\ textWithoutUrls < 50
        hasOpinion      == Test(hasOpinionPattern, text)
        hasEngagementHook == Test(hasEngagementHookPattern, text)
        caps            == MatchCount(upperCaseLetters, text)
        hashtags        == MatchCount(hashtagPattern, text)
        found           == FoundMutedTerms(text)
    IN  (IF isMostlyLink
         THEN << Suggestion("warning", "Low Value", << "mostly a link" >>, "high") >> ELSE << >>)
     \o (IF textWithoutUrls < 50 /\ textWithoutUrls > 0
         THEN << Suggestion("warning", "Content Length", << "only chars", textWithoutUrls >>, "high") >>
         ELSE << >>)
     \o (IF urls > 0
         THEN << Suggestion("warning", "External Link Detected", << "links reduce reach" >>, "medium") >>
         ELSE << >>)
     \o (IF ~hasOpinion /\ ~hasEngagementHook /\ textWithoutUrls > 20
         THEN << Suggestion("tip", "Personality", << "add your opinion" >>, "medium") >> ELSE << >>)
     \o (IF 2 * caps > Max(NonSpaceLength(text), 1) /\ TextLength(text) > 20
         THEN << Suggestion("warning", "Formatting", << "too many caps" >>, "high") >> ELSE << >>)
     \o (IF hashtags > 3
         THEN << Suggestion("warning", "Hashtags", << "too many hashtags", hashtags >>, "high") >>
         ELSE << >>)
     \o (IF authorDiversity.score < 60
         THEN << Suggestion("warning", "Posting Frequency", << "posted recently" >>, "high") >>
         ELSE << >>)
     \o (IF filterRisk.score < 70 /\ Len(found) > 0
         THEN << Suggestion("warning", "Muted Terms", << "muted terms", found >>, "high") >>
         ELSE << >>)

\* the checks with the length warning left out for a post already reported
\* as mostly a link
ContentSuggestions_deduplicated(text, authorDiversity, filterRisk) ==
    LET textWithoutUrls == WithoutUrlsLength(text)
        urls            == MatchCount(urlPattern, text)
        isMostlyLink    == urls > 0 /\ textWithoutUrls < 50
    IN  (IF isMostlyLink
         THEN << Suggestion("warning", "Low Value", << "mostly a link" >>, "high") >> ELSE << >>)
     \o (IF ~Test(hasQuestionPattern, text)
         THEN << Suggestion("improvement", "Engagement (13.5x weight)", << "no question" >>, "high") >>
         ELSE << >>)
     \o (IF textWithoutUrls < 50 /\ textWithoutUrls > 0 /\ ~isMostlyLink
         THEN << Suggestion("warning", "Content Length", << "only chars", textWithoutUrls >>, "high") >>
         ELSE << >>)
     \o (IF urls > 0
         THEN << Suggestion("warning", "External Link Detected", << "links reduce reach" >>, "medium") >>
         ELSE << >>)

\* lines 116-215: the checks that run before the fallbacks, in order
ContentSuggestions(text, authorDiversity, filterRisk) ==
    LET textWithoutUrls == WithoutUrlsLength(text)
        urls            == MatchCount(urlPattern, text)
        isMostlyLink    == urls > 0 /\ textWithoutUrls < 50
        hasQuestion     == Test(hasQuestionPattern, text)
        hasOpinion      == Test(hasOpinionPattern, text)
        hasEngagementHook == Test(hasEngagementHookPattern, text)
        caps            == MatchCount(upperCaseLetters, text)
        hashtags        == MatchCount(hashtagPattern, text)
        found           == FoundMutedTerms(text)
    IN  (IF isMostlyLink
         THEN << Suggestion("warning", "Low Value", << "mostly a link" >>, "high") >> ELSE << >>)
     \o (IF ~hasQuestion
         THEN << Suggestion("improvement", "Engagement (13.5x weight)", << "no question" >>, "high") >>
         ELSE << >>)
     \o (IF textWithoutUrls < 50 /\ textWithoutUrls > 0
         THEN << Suggestion("warning", "Content Length", << "only chars", textWithoutUrls >>, "high") >>
         ELSE << >>)
     \o (IF urls > 0
         THEN << Suggestion("warning", "External Link Detected", << "links reduce reach" >>, "medium") >>
         ELSE << >>)
     \o (IF ~hasOpinion /\ ~hasEngagementHook /\ textWithoutUrls > 20
         THEN << Suggestion("tip", "Personality", << "add your opinion" >>, "medium") >> ELSE << >>)
     \o (IF 2 * caps > Max(NonSpaceLength(text), 1) /\ TextLength(text) > 20
         THEN << Suggestion("warning", "Formatting", << "too many caps" >>, "high") >> ELSE << >>)
     \o (IF hashtags > 3
         THEN << Suggestion("warning", "Hashtags", << "too many hashtags", hashtags >>, "high") >>
         ELSE << >>)
     \o (IF authorDiversity.score < 60
         THEN << Suggestion("warning", "Posting Frequency", << "posted recently" >>, "high") >>
         ELSE << >>)
     \o (IF filterRisk.score < 70 /\ Len(found) > 0
         THEN << Suggestion("warning", "Muted Terms", << "muted terms", found >>, "high") >>
         ELSE << >>)

\* the positive tip given for quality alone, whatever was found before
FallbackSuggestions_qualityOnly(text, suggestions, engagement, dwellTime, reach) ==
    IF engagement.score + dwellTime.score + reach.score > 180
    THEN << Suggestion("tip", "Strong Post", << "good structure" >>, "low") >>
    ELSE << >>

\* lines 217-244: the positive tip or the default tips, when nothing was found
FallbackSuggestions(text, suggestions, engagement, dwellTime, reach) ==
    LET hasQuestion       == Test(hasQuestionPattern, text)
        hasValue          == WithoutUrlsLength(text) >= 100
        hasEngagementHook == Test(hasEngagementHookPattern, text)
        overallQuality    == engagement.score + dwellTime.score + reach.score
    IN  IF Len(suggestions) = 0 /\ overallQuality > 180 /\ hasQuestion /\ hasValue
        THEN << Suggestion("tip", "Strong Post", << "good structure" >>, "low") >>
        ELSE IF Len(suggestions) = 0
        THEN (IF ~hasQuestion
              THEN << Suggestion("tip", "Optimization", << "consider adding a question" >>, "medium") >>
              ELSE << >>)
          \o (IF ~hasEngagementHook
              THEN << Suggestion("tip", "Optimization", << "add a call-to-action" >>, "medium") >>
              ELSE << >>)
        ELSE << >>

\* generateSuggestions without the safeguard of lines 246-254
AlwaysOneSuggestion_none(suggestions) == << >>

\* lines 246-254
AlwaysOneSuggestion(suggestions) ==
    IF Len(suggestions) = 0
    THEN << Suggestion("tip", "Good Start", << "solid foundation" >>, "low") >>
    ELSE << >>

\* generateSuggestions without the early return of line 113: a link-only post
\* runs through the checks like every other
generateSuggestions_noEarlyReturn(text, engagement, redFlags, dwellTime, authorDiversity, filterRisk, reach) ==
    LET checked    == ContentSuggestions(text, authorDiversity, filterRisk)
        withTips   == checked \o FallbackSuggestions(text, checked, engagement, dwellTime, reach)
        complete   == withTips \o AlwaysOneSuggestion(withTips)
    IN  SortByPriority(complete)

generateSuggestions(text, engagement, redFlags, dwellTime, authorDiversity, filterRisk, reach) ==
    LET isOnlyLink == MatchCount(urlPattern, text) > 0 /\ WithoutUrlsLength(text) < 10
        checked    == ContentSuggestions(text, authorDiversity, filterRisk)
        withTips   == checked \o FallbackSuggestions(text, checked, engagement, dwellTime, reach)
        complete   == withTips \o AlwaysOneSuggestion(withTips)
    IN  IF isOnlyLink THEN LinkOnlySuggestions ELSE SortByPriority(complete)

----------------------------------------------------------------------------
(* index.ts: analyzePost *)

\* the weights of engagement and red flags exchanged
weights_exchanged ==
    [engagement      |-> << 3355444, 3355443, 51 >>,
     redFlags        |-> << 0, 0, 64 >>,
     dwellTime       |-> << 6710886, 6710886, 38 >>,
     authorDiversity |-> << 6710886, 6710886, 38 >>,
     filterRisk      |-> << 10066330, 10066329, 25 >>,
     reach           |-> << 6710886, 6710886, 38 >>]

\* the doubles 0.25, 0.20, 0.15, 0.15, 0.10, 0.15
weights ==
    [engagement      |-> << 0, 0, 64 >>,
     redFlags        |-> << 3355444, 3355443, 51 >>,
     dwellTime       |-> << 6710886, 6710886, 38 >>,
     authorDiversity |-> << 6710886, 6710886, 38 >>,
     filterRisk      |-> << 10066330, 10066329, 25 >>,
     reach           |-> << 6710886, 6710886, 38 >>]

\* the defaults of the destructuring in lines 19-23
DefaultRecentPostCount == 0

DefaultHoursSinceLastPost == 24

DefaultFollowerCount == 1000

\* an options object; a field that is left out is Undefined, and leaving the
\* whole argument out (options = {}) leaves out all three
Options(recentPostCount, hoursSinceLastPost, followerCount) ==
    [recentPostCount |-> recentPostCount, hoursSinceLastPost |-> hoursSinceLastPost,
     followerCount |-> followerCount]

\* a destructuring whose default for hoursSinceLastPost is 0
Destructure_hours0(options) ==
    [recentPostCount    |-> IF options.recentPostCount = Undefined
                            THEN DefaultRecentPostCount ELSE options.recentPostCount,
     hoursSinceLastPost |-> IF options.hoursSinceLastPost = Undefined
                            THEN 0 ELSE options.hoursSinceLastPost,
     followerCount      |-> IF options.followerCount = Undefined
                            THEN DefaultFollowerCount ELSE options.followerCount]

Destructure(options) ==
    [recentPostCount    |-> IF options.recentPostCount = Undefined
                            THEN DefaultRecentPostCount ELSE options.recentPostCount,
     hoursSinceLastPost |-> IF options.hoursSinceLastPost = Undefined
                            THEN DefaultHoursSinceLastPost * HourScale ELSE options.hoursSinceLastPost,
     followerCount      |-> IF options.followerCount = Undefined
                            THEN DefaultFollowerCount ELSE options.followerCount]

\* Math.round(engagement.score * weights.engagement + ... + reach.score * weights.reach)
OverallScore(engagement, redFlags, dwellTime, authorDiversity, filterRisk, reach) ==
    MathRound(
        FloatAdd(FloatAdd(FloatAdd(FloatAdd(FloatAdd(
            FloatMulInt(weights.engagement, engagement.score),
            FloatMulInt(weights.redFlags, redFlags.score)),
            FloatMulInt(weights.dwellTime, dwellTime.score)),
            FloatMulInt(weights.authorDiversity, authorDiversity.score)),
            FloatMulInt(weights.filterRisk, filterRisk.score)),
            FloatMulInt(weights.reach, reach.score)))

\* the object analyzePost returns (lines 52-73), and the lastIndex the call
\* leaves in COMMONLY_MUTED_PATTERNS
AnalysisResult(text, engagement, redFlags, dwellTime, authorDiversity, filter, reach, overallScore) ==
    [result |-> [overallScore    |-> overallScore,
                 overallGrade    |-> getGrade(overallScore),
                 engagement      |-> engagement,
                 redFlags        |-> redFlags,
                 dwellTime       |-> dwellTime,
                 authorDiversity |-> authorDiversity,
                 filterRisk      |-> filter.result,
                 reach           |-> reach,
                 suggestions     |-> generateSuggestions(text, engagement, redFlags, dwellTime,
                                                         authorDiversity, filter.result, reach)],
     lastIndex |-> filter.lastIndex]

\* lines 43-74: the overall score of the six results, and the return
Aggregate(text, engagement, redFlags, dwellTime, authorDiversity, filter, reach) ==
    AnalysisResult(text, engagement, redFlags, dwellTime, authorDiversity, filter, reach,
                   OverallScore(engagement, redFlags, dwellTime, authorDiversity,
                                filter.result, reach))

\* the scorers with the posts counted in the text in place of recentPostCount
RunScorers_postsOfText(text, given, lastIndex) ==
    Aggregate(text,
              calculateEngagementScore(text),
              calculateRedFlagScore(text),
              calculateDwellTimeScore(text),
              calculateAuthorDiversityScore(Len(text), given.hoursSinceLastPost),
              calculateFilterRiskScore(text, lastIndex),
              calculateReachScore(text, given.followerCount))

\* lines 25-31: the six scorers on the text and the destructured options
RunScorers(text, given, lastIndex) ==
    Aggregate(text,
              calculateEngagementScore(text),
              calculateRedFlagScore(text),
              calculateDwellTimeScore(text),
              calculateAuthorDiversityScore(given.recentPostCount, given.hoursSinceLastPost),
              calculateFilterRiskScore(text, lastIndex),
              calculateReachScore(text, given.followerCount))

analyzePost(text, options, lastIndex) == RunScorers(text, Destructure(options), lastIndex)

----------------------------------------------------------------------------
(* The application around the core: App.tsx, OAuthCallback.tsx and the      *)
(* helpers of lib/twitter.  One browser tab is modelled: its location, its  *)
(* two storages, the React state of App and the position of the two         *)
(* asynchronous handlers.  Time does not advance: a timestamp is carried as *)
(* the age of the post in ticks of 1/HourScale hour.                        *)

\* null of a string-valued item; the empty string is the other falsy string
null == "null"

Truthy(s) == s \notin {null, ""}

\* null of User | null
NoUser == [none |-> TRUE]

User(followersCount, recentPostsCount, lastPostTimestamp) ==
    [followersCount |-> followersCount, recentPostsCount |-> recentPostsCount,
     lastPostTimestamp |-> lastPostTimestamp]

\* x || y on numbers
OrElse(x, y) == IF x = Undefined \/ x = 0 THEN y ELSE x

EmptyLocalStorage ==
    [x_access_token |-> null, x_refresh_token |-> null, x_user |-> NoUser, x_code_verifier |-> null]

saveTokens(localStorage, accessToken, refreshToken) ==
    [localStorage EXCEPT !.x_access_token = accessToken,
                         !.x_refresh_token = IF Truthy(refreshToken) THEN refreshToken ELSE @]

saveUser(localStorage, user) == [localStorage EXCEPT !.x_user = user]

saveCodeVerifier(localStorage, verifier) == [localStorage EXCEPT !.x_code_verifier = verifier]

clearAuth(localStorage) == EmptyLocalStorage

\* useState initial values of App
InitialAuthState ==
    [isAuthenticated |-> FALSE, user |-> NoUser, accessToken |-> null, loading |-> TRUE, error |-> null]

InitialAnalysisOptions == Options(0, 24 * HourScale, 1000)

\* the URL inputs of the analyzer tab
UrlInputs == {"", " ", "hello", "https://x.com/user/status/123", "123"}

\* url.trim()
TrimUrl == [u \in UrlInputs |-> IF u = " " THEN "" ELSE u]

\* the patterns of extractPostId: the inputs they match, with capture group 1
statusPatterns == [u \in {"https://x.com/user/status/123"} |-> "123"]

\* /^\d+$/.test(url.trim())
digitsOnly == {"123"}

extractPostId(url) ==
    IF url \in DOMAIN statusPatterns THEN statusPatterns[url]
    ELSE IF TrimUrl[url] \in digitsOnly THEN TrimUrl[url]
    ELSE null

VARIABLES isConfigured, location, params, loaded, localStorage, sessionStorage,
          authState, analysisOptions, postText, urlInput, analysisResult,
          urlAnalysisResult, analyzeError, isAnalyzing, analyzeUrl, callback,
          recentPostsFetch

\* the browser: address, query string of the callback address, the storages
browserVars == << isConfigured, location, params, localStorage, sessionStorage >>

\* useState of App, and whether its effects have run since the page was loaded
reactVars == << loaded, authState, analysisOptions, postText, urlInput, analysisResult,
                urlAnalysisResult, analyzeError, isAnalyzing >>

\* the asynchronous handlers between their awaits; recentPostsFetch is a
\* history variable: how the recent-posts fetch behind x_user ended
handlerVars == << analyzeUrl, callback, recentPostsFetch >>

appVars == << browserVars, reactVars, handlerVars >>

NoParams == [code |-> null, state |-> null, error |-> null]

Idle == [pc |-> "idle"]

----------------------------------------------------------------------------
(* The calls.  A state holds one call of an exported function: its          *)
(* arguments, whether it has returned, and what it returned; lastIndex is   *)
(* the state of the module-level COMMONLY_MUTED_PATTERNS.                   *)

VARIABLES pc, fn, text, options, result, lastIndex, earlier

vars == << pc, fn, text, options, result, lastIndex, earlier >>

allVars == << vars, appVars >>

NoResult == [none |-> TRUE]

NoCall == [none |-> TRUE]

FreshPatterns == [i \in DOMAIN COMMONLY_MUTED_PATTERNS |-> 0]

Omitted == Options(Undefined, Undefined, Undefined)

\* the core specifications run without the application
NoApp ==
    /\ isConfigured = FALSE
    /\ location = "none"
    /\ params = NoParams
    /\ loaded = FALSE
    /\ localStorage = EmptyLocalStorage
    /\ sessionStorage = [oauth_state |-> null]
    /\ authState = InitialAuthState
    /\ analysisOptions = InitialAnalysisOptions
    /\ postText = << >>
    /\ urlInput = ""
    /\ analysisResult = NoResult
    /\ urlAnalysisResult = NoResult
    /\ analyzeError = null
    /\ isAnalyzing = FALSE
    /\ analyzeUrl = Idle
    /\ callback = Idle
    /\ recentPostsFetch = "none"

\* option values on both sides of every threshold of the scorers
RecentPostCounts == {Undefined, 0, 3, 12}

HoursSinceLastPost == {Undefined, HourScale \div 2, 5 * HourScale, 24 * HourScale}

FollowerCounts == {Undefined, 0, 1000, 1001, 10000, 10001}

OptionSets ==
    { Options(n, h, f) : n \in RecentPostCounts, h \in HoursSinceLastPost, f \in FollowerCounts }

CoreOptions ==
    { Omitted, Options(0, 24 * HourScale, 1000), Options(12, HourScale \div 2, 20000),
      Options(3, 5 * HourScale, 5000) }

CoreTexts ==
    { << >>, << "long" >>, << "url", "caps" >>, << "url", "hook" >>, << "muted", "promo" >> }

InitAnalyzePost ==
    /\ fn = "analyzePost"
    /\ \/ text \in Texts /\ options \in CoreOptions
       \/ text \in CoreTexts /\ options \in OptionSets

InitAuthorDiversity ==
    /\ fn = "calculateAuthorDiversityScore"
    /\ text = << >>
    /\ \E n \in {Undefined} \cup 0..MaxRecentPostCount,
          h \in {Undefined} \cup 0..(MaxHours * HourScale) :
          options = Options(n, h, Undefined)

Init ==
    /\ pc = "called"
    /\ InitAnalyzePost \/ InitAuthorDiversity
    /\ result = NoResult
    /\ lastIndex = FreshPatterns
    /\ earlier = NoCall
    /\ NoApp

\* the caller gets the result; the patterns keep the lastIndex the call left
Return(ret) ==
    /\ result' = ret.result
    /\ lastIndex' = ret.lastIndex

\* analyzePost(text, options) runs to its return
AnalyzePost ==
    /\ pc = "called"
    /\ fn = "analyzePost"
    /\ Return(analyzePost(text, options, lastIndex))
    /\ pc' = "returned"
    /\ UNCHANGED << fn, text, options, earlier, appVars >>

\* calculateAuthorDiversityScore(recentPostCount, hoursSinceLastPost) runs to its return
CalculateAuthorDiversityScore ==
    /\ pc = "called"
    /\ fn = "calculateAuthorDiversityScore"
    /\ result' = calculateAuthorDiversityScore(options.recentPostCount, options.hoursSinceLastPost)
    /\ pc' = "returned"
    /\ UNCHANGED << fn, text, options, lastIndex, earlier, appVars >>

Next == AnalyzePost \/ CalculateAuthorDiversityScore

Spec == Init /\ [][Next]_allVars

----------------------------------------------------------------------------
(* Sequences of calls of analyzePost in one page: the module state          *)
(* (lastIndex) is carried from each call to the next.                       *)

CallTexts == { << >>, << "muted" >>, << "muted", "muted" >>, << "long" >>, << "url", "muted" >> }

CallOptions == { Omitted, Options(12, HourScale \div 2, 20000) }

InitCalls ==
    /\ pc = "idle"
    /\ fn = "analyzePost"
    /\ text = << >>
    /\ options = Omitted
    /\ result = NoResult
    /\ lastIndex = FreshPatterns
    /\ earlier = NoCall
    /\ NoApp

\* a caller invokes analyzePost
Call ==
    /\ pc \in {"idle", "returned"}
    /\ \E t \in CallTexts, o \in CallOptions :
          /\ text' = t
          /\ options' = o
          /\ earlier' = IF earlier # NoCall /\ (t # earlier.text \/ o # earlier.options)
                        THEN [earlier EXCEPT !.others = TRUE] ELSE earlier
    /\ pc' = "called"
    /\ result' = NoResult
    /\ UNCHANGED << fn, lastIndex, appVars >>

\* an observer keeps one returned call to compare later calls with
Remember ==
    /\ pc = "returned"
    /\ earlier = NoCall
    /\ earlier' = [text |-> text, options |-> options, result |-> result, others |-> FALSE]
    /\ UNCHANGED << pc, fn, text, options, result, lastIndex, appVars >>

NextCalls == Call \/ AnalyzePost \/ Remember

SpecCalls == InitCalls /\ [][NextCalls]_allVars

----------------------------------------------------------------------------
(* The application as a state machine: the user's actions on the page, the  *)
(* effects of App and the steps of its asynchronous handlers.               *)

\* the state a freshly loaded page starts its scripts in
FreshPage ==
    /\ loaded' = FALSE
    /\ authState' = InitialAuthState
    /\ analysisOptions' = InitialAnalysisOptions
    /\ postText' = << >>
    /\ urlInput' = ""
    /\ analysisResult' = NoResult
    /\ urlAnalysisResult' = NoResult
    /\ analyzeError' = null
    /\ isAnalyzing' = FALSE
    /\ analyzeUrl' = Idle
    /\ callback' = Idle
    /\ pc' = "idle"
    /\ fn' = "analyzePost"
    /\ text' = << >>
    /\ options' = Omitted
    /\ result' = NoResult
    /\ lastIndex' = FreshPatterns
    /\ earlier' = NoCall

\* a browser with empty storages opens the application
InitApp ==
    /\ isConfigured \in BOOLEAN
    /\ location = "/"
    /\ params = NoParams
    /\ loaded = FALSE
    /\ localStorage = EmptyLocalStorage
    /\ sessionStorage = [oauth_state |-> null]
    /\ authState = InitialAuthState
    /\ analysisOptions = InitialAnalysisOptions
    /\ postText = << >>
    /\ urlInput = ""
    /\ analysisResult = NoResult
    /\ urlAnalysisResult = NoResult
    /\ analyzeError = null
    /\ isAnalyzing = FALSE
    /\ analyzeUrl = Idle
    /\ callback = Idle
    /\ recentPostsFetch = "none"
    /\ pc = "idle"
    /\ fn = "analyzePost"
    /\ text = << >>
    /\ options = Omitted
    /\ result = NoResult
    /\ lastIndex = FreshPatterns
    /\ earlier = NoCall

\* the page calls analyzePost(t, o): the core variables hold the last call
CallAnalyzePost(t, o, ret) ==
    /\ Return(ret)
    /\ text' = t
    /\ options' = o
    /\ pc' = "returned"
    /\ fn' = "analyzePost"
    /\ UNCHANGED earlier

\* the composer effect, run after a render in which postText or analysisOptions changed
ComposerEffect(t, o) ==
    IF Trim(t) # << >>
    THEN /\ CallAnalyzePost(t, o, analyzePost(t, o, lastIndex))
         /\ analysisResult' = result'
    ELSE /\ analysisResult' = NoResult
         /\ UNCHANGED vars

\* the analysisOptions the mount effect leaves for a stored user
RestoredOptions(prev, user) ==
    [prev EXCEPT !.followerCount = OrElse(user.followersCount, 1000),
                 !.recentPostCount = OrElse(user.recentPostsCount, 0)]

\* the scripts of a loaded page run: the mount effect of App, the composer
\* effect (postText is still empty) and, on /callback, the start of handleCallback
Mount ==
    /\ ~loaded
    /\ location \in {"/", "/callback"}
    /\ loaded' = TRUE
    /\ IF Truthy(localStorage.x_access_token) /\ localStorage.x_user # NoUser
       THEN /\ authState' = [isAuthenticated |-> TRUE, user |-> localStorage.x_user,
                             accessToken |-> localStorage.x_access_token,
                             loading |-> FALSE, error |-> null]
            /\ analysisOptions' = RestoredOptions(analysisOptions, localStorage.x_user)
       ELSE /\ authState' = [authState EXCEPT !.loading = FALSE]
            /\ UNCHANGED analysisOptions
    /\ analysisResult' = NoResult
    /\ callback' = IF location = "/callback" THEN [pc |-> "handleCallback"] ELSE callback
    /\ UNCHANGED << vars, browserVars, postText, urlInput, urlAnalysisResult, analyzeError,
                    isAnalyzing, analyzeUrl, recentPostsFetch >>

\* the main page is shown with the composer and the analyzer tab
Authenticated ==
    /\ loaded
    /\ location = "/"
    /\ ~authState.loading
    /\ authState.isAuthenticated

\* the texts typed into the composer
ComposerTexts == { << >>, << "nl" >>, << "long" >>, << "url", "muted" >> }

\* PostComposer onChange: setPostText, then the composer effect
SetPostText ==
    /\ Authenticated
    /\ \E t \in ComposerTexts :
          /\ postText' = t
          /\ ComposerEffect(t, analysisOptions)
    /\ UNCHANGED << browserVars, loaded, authState, analysisOptions, urlInput,
                    urlAnalysisResult, analyzeError, isAnalyzing, handlerVars >>

\* crypto.randomUUID() and the PKCE verifier
OAuthStates == {"s1", "s2"}

\* handleLogin: the OAuth redirect when a client id is configured, the demo user otherwise
HandleLogin ==
    /\ loaded
    /\ location = "/"
    /\ ~authState.loading
    /\ ~authState.isAuthenticated
    /\ IF isConfigured
       THEN \E state \in OAuthStates \cup {null} :
              IF state # null
              THEN /\ localStorage' = saveCodeVerifier(localStorage, "verifier")
                   /\ sessionStorage' = [oauth_state |-> state]
                   /\ location' = "authorize"
                   /\ authState' = [authState EXCEPT !.loading = TRUE]
                   /\ UNCHANGED << vars, analysisOptions, analysisResult, recentPostsFetch >>
              ELSE \* crypto threw: the catch block
                   /\ authState' = [authState EXCEPT !.loading = FALSE,
                                                     !.error = "Failed to start authentication"]
                   /\ UNCHANGED << vars, localStorage, sessionStorage, location,
                                   analysisOptions, analysisResult, recentPostsFetch >>
       ELSE /\ localStorage' = saveUser(saveTokens(localStorage, "demo_token", null),
                                         User(5420, 3, 4 * HourScale))
            /\ authState' = [isAuthenticated |-> TRUE, user |-> User(5420, 3, 4 * HourScale),
                             accessToken |-> "demo_token", loading |-> FALSE, error |-> null]
            /\ analysisOptions' = Options(3, 4 * HourScale, 5420)
            /\ ComposerEffect(postText, Options(3, 4 * HourScale, 5420))
            /\ recentPostsFetch' = "demo"
            /\ UNCHANGED << sessionStorage, location >>
    /\ UNCHANGED << isConfigured, params, loaded, postText, urlInput, urlAnalysisResult,
                    analyzeError, isAnalyzing, analyzeUrl, callback >>

\* handleLogout
HandleLogout ==
    /\ Authenticated
    /\ localStorage' = clearAuth(localStorage)
    /\ authState' = [isAuthenticated |-> FALSE, user |-> NoUser, accessToken |-> null,
                     loading |-> FALSE, error |-> null]
    /\ analysisOptions' = Options(0, 24 * HourScale, 1000)
    /\ ComposerEffect(postText, Options(0, 24 * HourScale, 1000))
    /\ recentPostsFetch' = "none"
    /\ UNCHANGED << isConfigured, location, params, sessionStorage, loaded, postText, urlInput,
                    urlAnalysisResult, analyzeError, isAnalyzing, analyzeUrl, callback >>

\* the query strings a callback address can carry
ParamSets ==
    { [code |-> c, state |-> s, error |-> e] :
        c \in {null, "code"}, s \in OAuthStates \cup {null}, e \in {null, "access_denied"} }

\* X answers the authorization request: it redirects to /callback with the
\* state it was given and either a code or an error
Authorize ==
    /\ location = "authorize"
    /\ location' = "/callback"
    /\ \E granted \in BOOLEAN :
          params' = [code |-> IF granted THEN "code" ELSE null,
                     state |-> sessionStorage.oauth_state,
                     error |-> IF granted THEN null ELSE "access_denied"]
    /\ FreshPage
    /\ UNCHANGED << isConfigured, localStorage, sessionStorage, recentPostsFetch >>

\* the browser opens an address of the application: a reload, a typed
\* address or a followed link, with any query string
Navigate ==
    /\ location # "none"
    /\ \/ location' = "/" /\ params' = NoParams
       \/ location' = "/callback" /\ params' \in ParamSets
    /\ FreshPage
    /\ UNCHANGED << isConfigured, localStorage, sessionStorage, recentPostsFetch >>

\* the catch block of handleCallback
CallbackFailed ==
    /\ localStorage' = clearAuth(localStorage)
    /\ callback' = [pc |-> "onError"]
    /\ recentPostsFetch' = "none"
    /\ UNCHANGED sessionStorage

\* handleCallback up to its first await: the checks of the query string
HandleCallback ==
    /\ callback.pc = "handleCallback"
    /\ IF \/ Truthy(params.error)
          \/ ~Truthy(params.code)
          \/ params.state # sessionStorage.oauth_state
          \/ ~Truthy(localStorage.x_code_verifier)
       THEN CallbackFailed
       ELSE /\ callback' = [pc |-> "exchangeCodeForToken"]
            /\ UNCHANGED << localStorage, sessionStorage, recentPostsFetch >>
    /\ UNCHANGED << vars, isConfigured, location, params, reactVars, analyzeUrl >>

\* exchangeCodeForToken answers; saveTokens
ExchangeCodeForToken ==
    /\ callback.pc = "exchangeCodeForToken"
    /\ \E ok \in BOOLEAN :
          IF ok
          THEN /\ localStorage' = saveTokens(localStorage, "access_token", "refresh_token")
               /\ callback' = [pc |-> "fetchCurrentUser"]
               /\ UNCHANGED << sessionStorage, recentPostsFetch >>
          ELSE CallbackFailed
    /\ UNCHANGED << vars, isConfigured, location, params, reactVars, analyzeUrl >>

\* public_metrics.followers_count of the profiles X returns
FollowersCounts == {0, 20000}

\* fetchCurrentUser(accessToken) when the response is ok
fetchCurrentUser(followers_count) == User(OrElse(followers_count, 0), 0, Undefined)

\* fetchCurrentUser answers
FetchCurrentUser ==
    /\ callback.pc = "fetchCurrentUser"
    /\ \E ok \in BOOLEAN, followers_count \in FollowersCounts :
          IF ok
          THEN /\ callback' = [pc |-> "fetchUserRecentPosts",
                               user |-> fetchCurrentUser(followers_count)]
               /\ UNCHANGED << localStorage, sessionStorage, recentPostsFetch >>
          ELSE CallbackFailed
    /\ UNCHANGED << vars, isConfigured, location, params, reactVars, analyzeUrl >>

\* the tweets of the last 24 h, newest first, each by the age of its created_at
Timelines == { << >>, << HourScale >>, << HourScale, 3 * HourScale, 5 * HourScale >> }

\* fetchUserRecentPosts(accessToken, userId) for a response with the given ok and data
fetchUserRecentPosts(ok, tweets) ==
    IF ~ok
    THEN [count |-> 0, lastPostTimestamp |-> Undefined]
    ELSE [count |-> Len(tweets),
          lastPostTimestamp |-> IF Len(tweets) > 0 THEN tweets[1] ELSE Undefined]

\* lines 81-85 of handleCallback: the user that is saved
WithRecentPosts(user, recentPosts) ==
    [user EXCEPT !.recentPostsCount = recentPosts.count,
                 !.lastPostTimestamp = OrElse(recentPosts.lastPostTimestamp, @)]

\* fetchUserRecentPosts answers; saveUser and the end of handleCallback
FetchUserRecentPosts ==
    /\ callback.pc = "fetchUserRecentPosts"
    /\ \E ok \in BOOLEAN, tweets \in Timelines :
          /\ localStorage' = saveUser(localStorage,
                 WithRecentPosts(callback.user, fetchUserRecentPosts(ok, tweets)))
          /\ recentPostsFetch' = IF ok THEN "ok" ELSE "failed"
    /\ sessionStorage' = [oauth_state |-> null]
    /\ callback' = [pc |-> "onSuccess"]
    /\ UNCHANGED << vars, isConfigured, location, params, reactVars, analyzeUrl >>

\* the timers of handleCallback fire: handleOAuthSuccess, handleOAuthError
Redirect ==
    /\ callback.pc \in {"onSuccess", "onError"}
    /\ location' = "/"
    /\ params' = NoParams
    /\ FreshPage
    /\ UNCHANGED << isConfigured, localStorage, sessionStorage, recentPostsFetch >>

\* PostAnalyzer onUrlChange: setUrlInput
SetUrlInput ==
    /\ Authenticated
    /\ \E u \in UrlInputs : urlInput' = u
    /\ UNCHANGED << vars, browserVars, loaded, authState, analysisOptions, postText,
                    analysisResult, urlAnalysisResult, analyzeError, isAnalyzing, handlerVars >>

\* handleAnalyzeUrl up to its await; the closure keeps the values it was created with
HandleAnalyzeUrl ==
    /\ urlAnalysisResult' = NoResult
    /\ IF extractPostId(urlInput) = null
       THEN /\ analyzeError' = "Invalid X post URL"
            /\ isAnalyzing' = FALSE
            /\ UNCHANGED analyzeUrl
       ELSE IF ~Truthy(authState.accessToken)
       THEN /\ analyzeError' = "Please connect your X account first"
            /\ isAnalyzing' = FALSE
            /\ UNCHANGED analyzeUrl
       ELSE /\ analyzeError' = null
            /\ isAnalyzing' = TRUE
            /\ analyzeUrl' = [pc |-> "fetch", analysisOptions |-> analysisOptions]

\* a form that calls onAnalyze whether or not an analysis is running
HandleSubmit_always ==
    /\ Authenticated
    /\ IF TrimUrl[urlInput] # ""
       THEN HandleAnalyzeUrl
       ELSE UNCHANGED << urlAnalysisResult, analyzeError, isAnalyzing, analyzeUrl >>
    /\ UNCHANGED << vars, browserVars, loaded, authState, analysisOptions, postText, urlInput,
                    analysisResult, callback, recentPostsFetch >>

\* PostAnalyzer handleSubmit: the form of the analyzer tab is submitted
HandleSubmit ==
    /\ Authenticated
    /\ IF TrimUrl[urlInput] # "" /\ ~isAnalyzing
       THEN HandleAnalyzeUrl
       ELSE UNCHANGED << urlAnalysisResult, analyzeError, isAnalyzing, analyzeUrl >>
    /\ UNCHANGED << vars, browserVars, loaded, authState, analysisOptions, postText, urlInput,
                    analysisResult, callback, recentPostsFetch >>

\* the posts /api/post/fetch returns: the text and the author's followersCount
FetchedPosts ==
    { [text |-> t, followersCount |-> f] :
        t \in { << "long" >>, << "url", "caps" >> }, f \in {Undefined, 0, 20000} }

\* lines 772-775: enrichedOptions
EnrichedOptions(analysisOptionsThen, post) ==
    [analysisOptionsThen EXCEPT !.followerCount = OrElse(post.followersCount, @)]

\* /api/post/fetch answers: the rest of handleAnalyzeUrl
PostFetched ==
    /\ analyzeUrl.pc = "fetch"
    /\ \E outcome \in {"ok", "not ok", "throws"}, post \in FetchedPosts :
          IF outcome = "ok"
          THEN /\ CallAnalyzePost(post.text, EnrichedOptions(analyzeUrl.analysisOptions, post),
                      analyzePost(post.text, EnrichedOptions(analyzeUrl.analysisOptions, post),
                                  lastIndex))
               /\ urlAnalysisResult' = result'
               /\ UNCHANGED analyzeError
          ELSE /\ analyzeError' = "Failed to fetch post"
               /\ UNCHANGED << vars, urlAnalysisResult >>
    /\ isAnalyzing' = FALSE
    /\ analyzeUrl' = Idle
    /\ UNCHANGED << browserVars, loaded, authState, analysisOptions, postText, urlInput,
                    analysisResult, callback, recentPostsFetch >>

NextApp ==
    \/ Mount
    \/ SetPostText
    \/ HandleLogin
    \/ HandleLogout
    \/ Authorize
    \/ Navigate
    \/ HandleCallback
    \/ ExchangeCodeForToken
    \/ FetchCurrentUser
    \/ FetchUserRecentPosts
    \/ Redirect
    \/ SetUrlInput
    \/ HandleSubmit
    \/ PostFetched

SpecApp == InitApp /\ [][NextApp]_allVars

\* the step PostFetched, told by what it does to the pending run: the await
\* of handleAnalyzeUrl resumes in the page that started it
FetchSettles ==
    /\ analyzeUrl.pc = "fetch"
    /\ analyzeUrl' = Idle
    /\ loaded' = TRUE

\* the application when every request to /api/post/fetch is answered or fails
SpecAppLive == SpecApp /\ WF_analyzeUrl(FetchSettles)

----------------------------------------------------------------------------
(* components/DeepAnalysis.tsx: analyzeText, the engagement factors and the *)
(* predicted potentials that depend on them.  The content, risk and         *)
(* diversity factors use neither threadPattern nor these potentials.        *)

\* /\b(unpopular opinion|hot take|controversial|agree or disagree|am i wrong|change my mind)\b/gi
opinionPatterns == [x \in {} |-> 0]

\* /\b(share|repost|thoughts\??|what do you think|tell me|let me know|reply|comment)\b/gi
ctaPatterns_DeepAnalysis == [hook |-> 1, long |-> 2]

\* /\b(thread|🧵|1\/|a thread)\b/gi
threadPattern == [essay |-> 1]

\* pattern.test(text) for a pattern object with the g flag whose lastIndex
\* lies behind `passed` of the matches of the text: the search starts
\* there, stops behind the next match, and starts over when there is none
RegExp_test(pattern, t, passed) ==
    IF CountFrom(pattern, t, 0) > passed
    THEN [found |-> TRUE, lastIndex |-> passed + 1]
    ELSE [found |-> FALSE, lastIndex |-> 0]

\* lines 261-327: the engagement factors, in the order they are pushed
EngagementFactors(t, threadFound) ==
    LET questionCount  == MatchCount(questionMarks, t)
        opinionMatches == MatchCount(opinionPatterns, t)
        ctaMatches     == MatchCount(ctaPatterns_DeepAnalysis, t)
    IN  (IF questionCount > 0
         THEN << [name |-> "Questions Detected", score |-> Min(questionCount * 15, 30)] >>
         ELSE << [name |-> "No Questions", score |-> -10] >>)
     \o (IF opinionMatches > 0
         THEN << [name |-> "Opinion/Debate Content", score |-> 20] >> ELSE << >>)
     \o (IF ctaMatches > 0
         THEN << [name |-> "Call-to-Action", score |-> Min(ctaMatches * 8, 15)] >> ELSE << >>)
     \o (IF threadFound
         THEN << [name |-> "Thread Format", score |-> 15] >> ELSE << >>)

RECURSIVE SumScores(_)
SumScores(factors) ==
    IF factors = << >> THEN 0 ELSE Head(factors).score + SumScores(Tail(factors))

\* line 599; `again` is the second threadPattern.test(text) of the call
RepostPotential(length, again) ==
    Min(100, 15 + (IF length > 100 THEN 10 ELSE 0) + (IF again THEN 15 ELSE 0))

\* analyzeText(text, ...): threadPattern is created in the call (line 316),
\* tested at line 317 and tested again at line 599
analyzeText(t) ==
    LET first   == RegExp_test(threadPattern, t, 0)
        again   == RegExp_test(threadPattern, t, first.lastIndex)
        factors == EngagementFactors(t, first.found)
    IN  [engagementFactors |-> factors,
         engagementScore   |-> Clamp(50 + SumScores(factors)),
         replyPotential    |-> Min(100, 20 + MatchCount(questionMarks, t) * 15
                                           + MatchCount(opinionPatterns, t) * 10),
         repostPotential   |-> RepostPotential(TextLength(t), again.found)]

InitDeepAnalysis ==
    /\ pc = "called"
    /\ fn = "analyzeText"
    /\ text \in Texts
    /\ options = Omitted
    /\ result = NoResult
    /\ lastIndex = FreshPatterns
    /\ earlier = NoCall
    /\ NoApp

\* DeepAnalysis renders: analyzeText(text, recentPostCount, hoursSinceLastPost)
\* runs to its return
AnalyzeText ==
    /\ pc = "called"
    /\ fn = "analyzeText"
    /\ result' = analyzeText(text)
    /\ pc' = "returned"
    /\ UNCHANGED << fn, text, options, lastIndex, earlier, appVars >>

SpecDeepAnalysis == InitDeepAnalysis /\ [][AnalyzeText]_allVars

----------------------------------------------------------------------------
(* Properties *)

Returned(f) == pc = "returned" /\ fn = f

Dimensions == {"engagement", "redFlags", "dwellTime", "authorDiversity", "filterRisk", "reach"}

\* the arguments as the call sees them after defaulting
Given == Destructure(options)

\* the author-diversity result of the call in the state, whichever function was called
DiversityResult == IF fn = "analyzePost" THEN result.authorDiversity ELSE result

\* C1: every scorer returns an integer score between 0 and 100, for every text
\* (the empty one included) and all non-negative option values.
C1_ScoresInRange ==
    /\ Returned("analyzePost") => \A d \in Dimensions : result[d].score \in 0..100
    /\ Returned("calculateAuthorDiversityScore") => result.score \in 0..100

RECURSIVE SumWeights(_)
SumWeights(details) ==
    IF details = << >> THEN 0 ELSE Head(details).weight + SumWeights(Tail(details))

\* a post that collects every penalty, with default options: the red-flag and
\* filter-risk sums fall below 0 and are returned as 0, the author-diversity sum
\* rises to 115 and is returned as 100
C1_Witness ==
    /\ Returned("analyzePost") /\ text = << "toxic" >> /\ options = Omitted
    /\ 100 + SumWeights(result.redFlags.details) < 0 /\ result.redFlags.score = 0
    /\ 100 + SumWeights(result.filterRisk.details) < 0 /\ result.filterRisk.score = 0
    /\ 100 + SumWeights(result.authorDiversity.details) > 100
    /\ result.authorDiversity.score = 100

\* the thresholds of the grade bands
GradeBand(score) ==
    CASE score >= 85 -> "A" [] score >= 70 /\ score < 85 -> "B" [] score >= 55 /\ score < 70 -> "C"
      [] score >= 40 /\ score < 55 -> "D" [] score < 40 -> "F"

ColorBand(score) ==
    CASE score >= 85 -> "#00ba7c" [] score >= 70 /\ score < 85 -> "#1d9bf0"
      [] score >= 55 /\ score < 70 -> "#ffd400" [] score >= 40 /\ score < 55 -> "#ff7a00"
      [] score < 40 -> "#f4212e"

GradeRank == [A |-> 4, B |-> 3, C |-> 2, D |-> 1, F |-> 0]

GradeCopies(score) ==
    << getGrade_engagement(score), getGrade_redFlag(score), getGrade_dwellTime(score),
       getGrade_authorDiversity(score), getGrade_filterRisk(score), getGrade_reach(score),
       getGrade(score) >>

ColorCopies(score) ==
    << getColor_engagement(score), getColor_redFlag(score), getColor_dwellTime(score),
       getColor_authorDiversity(score), getColor_filterRisk(score), getColor_reach(score) >>

\* the grades and colours the seven copies give to every score
GradeTable == [s \in 0..100 |-> GradeCopies(s)]

ColorTable == [s \in 0..100 |-> ColorCopies(s)]

\* every copy follows the thresholds and never gives a higher score a lower grade
CopiesFollowThresholds ==
    \A s \in 0..100 :
        /\ \A i \in 1..7 : GradeTable[s][i] = GradeBand(s)
        /\ \A i \in 1..6 : ColorTable[s][i] = ColorBand(s)
        /\ \A t \in s..100 : \A i \in 1..7 :
              GradeRank[GradeTable[s][i]] <= GradeRank[GradeTable[t][i]]

\* C2: every score in 0..100 has one grade by the thresholds 85/70/55/40 and the
\* colour of the same band, the mapping is monotonic and the same in the six
\* scorers and the aggregator, and every returned result carries the grade and
\* colour of its score.
C2_GradeAgreesWithScore ==
    /\ CopiesFollowThresholds
    /\ Returned("analyzePost") =>
          /\ \A d \in Dimensions : /\ result[d].grade = GradeBand(result[d].score)
                                   /\ result[d].color = ColorBand(result[d].score)
          /\ result.overallGrade = GradeBand(result.overallScore)
    /\ Returned("calculateAuthorDiversityScore") =>
          /\ result.grade = GradeBand(result.score)
          /\ result.color = ColorBand(result.score)

\* a result whose dimensions fall into different bands
C2_Witness ==
    /\ Returned("analyzePost")
    /\ \E d \in Dimensions : result[d].grade = "A"
    /\ \E d \in Dimensions : result[d].grade \in {"D", "F"}
    /\ result.overallGrade \in {"B", "C"}

\* 100 times the weighted sum of the six scores of a result, in exact arithmetic
WeightedSum100(r) ==
    25 * r.engagement.score + 20 * r.redFlags.score + 15 * r.dwellTime.score
      + 15 * r.authorDiversity.score + 10 * r.filterRisk.score + 15 * r.reach.score

RECURSIVE SeqMin(_)
SeqMin(q) == IF Len(q) = 1 THEN q[1] ELSE Min(q[1], SeqMin(Tail(q)))

RECURSIVE SeqMax(_)
SeqMax(q) == IF Len(q) = 1 THEN q[1] ELSE Max(q[1], SeqMax(Tail(q)))

SixScores(r) ==
    << r.engagement.score, r.redFlags.score, r.dwellTime.score,
       r.authorDiversity.score, r.filterRisk.score, r.reach.score >>

\* C3: overallScore is the weighted sum of the six returned scores with weights
\* 0.25, 0.20, 0.15, 0.15, 0.10, 0.15, rounded to an integer (Math.round of the
\* double sum is within 1/2 of the exact sum), the weights sum to exactly 1, and
\* overallScore is an integer in 0..100 between the smallest and the largest score.
C3_OverallIsWeightedRound ==
    /\ BigAdd(BigAdd(BigAdd(BigAdd(BigAdd(weights.engagement, weights.redFlags),
              weights.dwellTime), weights.authorDiversity), weights.filterRisk),
              weights.reach) = FromInt(1)
    /\ Returned("analyzePost") =>
          /\ result.overallScore \in 0..100
          /\ 100 * result.overallScore - 50 <= WeightedSum100(result)
          /\ WeightedSum100(result) <= 100 * result.overallScore + 50
          /\ SeqMin(SixScores(result)) <= result.overallScore
          /\ result.overallScore <= SeqMax(SixScores(result))

\* a result whose overall score lies strictly between its extreme scores
C3_Witness ==
    /\ Returned("analyzePost")
    /\ SeqMin(SixScores(result)) < result.overallScore
    /\ result.overallScore < SeqMax(SixScores(result))
    /\ WeightedSum100(result) % 100 # 0

\* C4: the suggestions of analyzePost are never empty.
C4_SuggestionsNeverEmpty ==
    Returned("analyzePost") => Len(result.suggestions) >= 1

\* no check found anything and no tip applied: only the last safeguard fills the list
C4_Witness ==
    /\ Returned("analyzePost")
    /\ Len(result.suggestions) = 1
    /\ result.suggestions[1].category = "Good Start"

IsLinkOnly(t) == MatchCount(urlPattern, t) > 0 /\ WithoutUrlsLength(t) < 10

\* C5: for a text with at least one URL and fewer than 10 other characters the
\* suggestions are exactly the critical-issue warning, the reply-weight tip and
\* the reach tip, in this order and all of high priority, whatever the scores.
C5_LinkOnlyShortCircuit ==
    (Returned("analyzePost") /\ IsLinkOnly(text)) =>
        /\ Len(result.suggestions) = 3
        /\ [i \in 1..3 |-> result.suggestions[i].category]
              = << "Critical Issue", "Algorithm Tip", "Reach" >>
        /\ [i \in 1..3 |-> result.suggestions[i].type]
              = << "warning", "improvement", "improvement" >>
        /\ \A i \in 1..3 : result.suggestions[i].priority = "high"

\* a link with 9 more characters, posted by an author whose diversity score is low
C5_Witness ==
    /\ Returned("analyzePost")
    /\ text = << "url", "hook" >>
    /\ result.authorDiversity.score < 60
    /\ Len(result.suggestions) = 3

\* the place of each suggestion in the order of the checks of generateSuggestions
CheckOrder ==
    [t \in {"just a link", "mostly a link"} |-> 1]
    @@ [t \in {"replies 13.5x", "no question"} |-> 2]
    @@ [t \in {"external links reduce reach by 80%", "only chars"} |-> 3]
    @@ ("links reduce reach" :> 4) @@ ("add your opinion" :> 5) @@ ("too many caps" :> 6)
    @@ ("too many hashtags" :> 7) @@ ("posted recently" :> 8) @@ ("muted terms" :> 9)
    @@ ("good structure" :> 10) @@ ("consider adding a question" :> 11)
    @@ ("add a call-to-action" :> 12) @@ ("solid foundation" :> 13)

PriorityRank == [high |-> 0, medium |-> 1, low |-> 2]

\* C6: in every returned list high comes before medium and medium before low,
\* and suggestions of one priority stand in the order in which their checks ran.
C6_SortedAndStable ==
    Returned("analyzePost") =>
        \A i, j \in DOMAIN result.suggestions :
            i < j =>
               LET a == result.suggestions[i]
                   b == result.suggestions[j]
               IN  /\ PriorityRank[a.priority] <= PriorityRank[b.priority]
                   /\ a.priority = b.priority => CheckOrder[a.text[1]] < CheckOrder[b.text[1]]

\* the caps warning (high, sixth check) stands before the link warning (medium,
\* fourth check) and after the length warning (high, third check)
C6_Witness ==
    /\ Returned("analyzePost")
    /\ \E i, j, k \in DOMAIN result.suggestions :
          /\ i < j /\ j < k
          /\ result.suggestions[i].category = "Content Length"
          /\ result.suggestions[j].category = "Formatting"
          /\ result.suggestions[k].category = "External Link Detected"

\* C7: two calls of analyzePost with the same text and options return the same
\* result whatever was called before or between them, and no call leaves state
\* behind in the module-level patterns.
C7_DeterministicAcrossCalls ==
    /\ pc \in {"idle", "returned"} => lastIndex = FreshPatterns
    /\ (pc = "returned" /\ earlier # NoCall /\ earlier.text = text /\ earlier.options = options)
          => result = earlier.result

\* the remembered call is repeated after a different call, on a text the muted
\* patterns match
C7_Witness ==
    /\ pc = "returned" /\ earlier # NoCall
    /\ earlier.others /\ earlier.text = text /\ earlier.options = options
    /\ text = << "muted", "muted" >>
    /\ result.filterRisk.score = 70

\* C8: with no recent post nothing is subtracted and the count branch pushes the
\* informational detail of weight 0; with n >= 1 recent posts the penalty is
\* 45 * (1 - 2^-n) rounded to an integer, 39 for n = 3, non-decreasing in n and
\* at most 45.
C8_DecayPenalty ==
    /\ \A n \in 1..MaxRecentPostCount :
          /\ PenaltyTable[n] <= 45
          /\ \A m \in n..MaxRecentPostCount : PenaltyTable[n] <= PenaltyTable[m]
    /\ pc = "returned" =>
          LET d == DiversityResult.details
              n == Given.recentPostCount
              time == IF Len(d) >= 2 THEN d[2].weight ELSE 0
          IN  /\ n = 0 => /\ d[1].factor = "First Post" /\ d[1].impact = "positive"
                          /\ d[1].weight = 0
                          /\ \A i \in 2..Len(d) : d[i].factor \in
                                {"Post Spacing", "Fresh Return", "Rapid Posting"}
                          /\ DiversityResult.score = Clamp(100 + time)
              /\ n >= 1 => LET penalty == -d[1].weight
                           IN  /\ 2 * (penalty * Pow2(n) - 45 * (Pow2(n) - 1)) <= Pow2(n)
                               /\ 2 * (45 * (Pow2(n) - 1) - penalty * Pow2(n)) <= Pow2(n)
                               /\ n = 3 => penalty = 39
                               /\ penalty <= 45
                               /\ DiversityResult.score = Clamp(100 - penalty + time)

\* three recent posts: the penalty is 39
C8_Witness ==
    /\ Returned("calculateAuthorDiversityScore")
    /\ options.recentPostCount = 3
    /\ result.details[1].weight = -39
    /\ result.details[1].factor = "Moderate Posting"

\* C9: 12 recent posts, the last half an hour ago: the details are Over-Posting
\* (-45), Rapid Posting (-10) and Recommendation (0) in this order and the score
\* is 45; the Recommendation detail is there exactly for more than 10 recent
\* posts, is the last detail and leaves the score as it is.
C9_Recommendation ==
    pc = "returned" =>
        LET d == DiversityResult.details
            n == Given.recentPostCount
            h == Given.hoursSinceLastPost
            recommended == { i \in DOMAIN d : d[i].factor = "Recommendation" }
            others == { i \in DOMAIN d : d[i].factor # "Recommendation" }
        IN  /\ (n = 12 /\ 2 * h = HourScale) =>
                  /\ [i \in DOMAIN d |-> << d[i].factor, d[i].weight >>]
                        = << << "Over-Posting", -45 >>, << "Rapid Posting", -10 >>,
                             << "Recommendation", 0 >> >>
                  /\ DiversityResult.score = 45
            /\ (recommended # {}) <=> (n > 10)
            /\ recommended \subseteq {Len(d)}
            /\ \A i \in recommended : d[i].weight = 0 /\ d[i].impact = "neutral"
            /\ Len(d) - Cardinality(recommended) \in 1..2
            /\ DiversityResult.score =
                  Clamp(100 + d[1].weight + (IF 2 \in others THEN d[2].weight ELSE 0))

\* the call of the claim
C9_Witness ==
    /\ Returned("calculateAuthorDiversityScore")
    /\ options.recentPostCount = 12 /\ 2 * options.hoursSinceLastPost = HourScale
    /\ Len(result.details) = 3
    /\ result.score = 45

\* the options with every omitted field written out
Explicit(o) ==
    Options(IF o.recentPostCount = Undefined THEN 0 ELSE o.recentPostCount,
            IF o.hoursSinceLastPost = Undefined THEN 24 * HourScale ELSE o.hoursSinceLastPost,
            IF o.followerCount = Undefined THEN 1000 ELSE o.followerCount)

\* C10: a call that omits any of the three option fields returns what the call
\* returns that passes recentPostCount = 0, hoursSinceLastPost = 24 and
\* followerCount = 1000 for the omitted ones; with all three omitted the
\* author-diversity score is 100 and reach gets no follower bonus.
C10_OptionDefaults ==
    Returned("analyzePost") =>
        /\ result = analyzePost(text, Explicit(options), FreshPatterns).result
        /\ options = Omitted =>
              /\ result.authorDiversity.score = 100
              /\ \A i \in DOMAIN result.reach.details :
                    result.reach.details[i].factor \notin {"Authority Signal", "Growing Authority"}

\* a call that omits the hours and the followers but not the post count
C10_Witness ==
    /\ Returned("analyzePost")
    /\ options.recentPostCount = 3
    /\ options.hoursSinceLastPost = Undefined /\ options.followerCount = Undefined
    /\ text = << "long" >>
    /\ result.authorDiversity.score = 76

\* the factor and the weight of every detail of a result, in order
Facts(r) == [i \in DOMAIN r.details |-> << r.details[i].factor, r.details[i].weight >>]

\* C11 as stated: for the empty string each text scorer yields its base score,
\* engagement 50, red-flag 100, dwell-time 50, filter-risk 100.
C11_EmptyTextBaseScores ==
    (Returned("analyzePost") /\ text = << >>) =>
        /\ result.engagement.score = 50
        /\ result.redFlags.score = 100
        /\ result.dwellTime.score = 50
        /\ result.filterRisk.score = 100

\* C11 amended: for the empty string analyzePost returns a result with all nine
\* fields and at least one suggestion; engagement is its base 50 with no detail,
\* red-flag and filter-risk are their base 100 with the clean detail only, and
\* dwell-time is 35: its base 50 less the 15 of the 'Too Short' check, which
\* fires for every text under 50 characters.
C11_EmptyTextScores ==
    (Returned("analyzePost") /\ text = << >>) =>
        /\ DOMAIN result = {"overallScore", "overallGrade", "engagement", "redFlags", "dwellTime",
                            "authorDiversity", "filterRisk", "reach", "suggestions"}
        /\ \A d \in Dimensions :
              {"score", "grade", "color", "label", "details"} \subseteq DOMAIN result[d]
        /\ Len(result.suggestions) >= 1
        /\ result.engagement.score = 50 /\ Facts(result.engagement) = << >>
        /\ result.redFlags.score = 100 /\ Facts(result.redFlags) = << << "Clean Content", 0 >> >>
        /\ result.filterRisk.score = 100
        /\ Facts(result.filterRisk) = << << "Low Filter Risk", 0 >> >>
        /\ result.dwellTime.score = 35 /\ Facts(result.dwellTime) = << << "Too Short", -15 >> >>

\* the empty string analysed for an author with 12 recent posts
C11_Witness ==
    /\ Returned("analyzePost") /\ text = << >>
    /\ options.recentPostCount = 12
    /\ result.dwellTime.score = 35
    /\ result.dwellTime.grade = "F"

\* more than 20 characters, more than half of them uppercase A-Z
MostlyCaps(t) == TextLength(t) > 20 /\ 2 * MatchCount(upperCaseLetters, t) > TextLength(t)

\* C12: for every text of more than 20 characters of which more than half are
\* uppercase A-Z, the red-flag result has the 'Excessive Caps' detail of weight
\* -20 (and score 80 when it is the only detail), and unless the text is
\* link-only the suggestions include the high-priority 'Formatting' warning.
C12_CapsConsistency ==
    (Returned("analyzePost") /\ MostlyCaps(text)) =>
        /\ \E i \in DOMAIN result.redFlags.details :
              /\ result.redFlags.details[i].factor = "Excessive Caps"
              /\ result.redFlags.details[i].weight = -20
        /\ Len(result.redFlags.details) = 1 => result.redFlags.score = 80
        /\ ~IsLinkOnly(text) =>
              \E i \in DOMAIN result.suggestions :
                  /\ result.suggestions[i].category = "Formatting"
                  /\ result.suggestions[i].type = "warning"
                  /\ result.suggestions[i].priority = "high"

\* 40 'A' characters: no other red flag fires, the score is 80
C12_Witness ==
    /\ Returned("analyzePost") /\ text = << "caps" >>
    /\ Facts(result.redFlags) = << << "Excessive Caps", -20 >> >>
    /\ result.redFlags.score = 80
    /\ \E i \in DOMAIN result.suggestions : result.suggestions[i].category = "Formatting"

\* the page has called analyzePost since it was loaded, and a user is signed in
CalledForUser ==
    /\ loaded
    /\ pc = "returned"
    /\ authState.isAuthenticated

\* C13: whenever the application has called analyzePost for a signed-in user,
\* the options of the call carry that user's fetched recentPostsCount as
\* recentPostCount and, when the user has a fetched lastPostTimestamp, the
\* hours since that timestamp as hoursSinceLastPost
C13_OptionsFromFetchedUser ==
    CalledForUser =>
        /\ options.recentPostCount = authState.user.recentPostsCount
        /\ authState.user.lastPostTimestamp # Undefined =>
               options.hoursSinceLastPost = authState.user.lastPostTimestamp

\* C14: analyzePost is never run for a user whose recent-posts fetch failed
\* (a failed fetch is an error, not recentPostsCount = 0), and an analyzer
\* run that ended with analyzeError has produced no analysis
C14_FetchFailuresSurface ==
    /\ CalledForUser => recentPostsFetch # "failed"
    /\ analyzeError # null => urlAnalysisResult = NoResult /\ ~isAnalyzing

\* the scorers that keep one running score, with the score each starts from
ScorerBase ==
    [engagement |-> 50, redFlags |-> 100, dwellTime |-> 50, authorDiversity |-> 100,
     filterRisk |-> 100]

\* the checks of each scorer in evaluation order, each by the factors it can report
ScorerChecks ==
    [engagement |->
        << {"Questions"}, {"Call-to-Action"}, {"Emotional Language"},
           {"Mentions", "Too Many Mentions"}, {"Thread Format"}, {"List Format"},
           {"Personal Story"} >>,
     redFlags |->
        << {"Excessive Caps"}, {"Too Many Hashtags", "Many Hashtags"}, {"Multiple Links"},
           {"Excessive Punctuation"}, {"Spam Pattern"}, {"Engagement Bait"},
           {"Divisive Language"}, {"Too Many Emojis"}, {"Clean Content"} >>,
     dwellTime |->
        << {"Optimal Length", "Too Short", "Extended Content"}, {"Line Breaks"},
           {"Strong Hook"}, {"Good Readability", "Complex Words"}, {"Curiosity Gap"},
           {"Strategic Emojis"}, {"Data/Quotes"} >>,
     authorDiversity |->
        << {"First Post", "Moderate Posting", "Frequent Posting", "Over-Posting"},
           {"Post Spacing", "Fresh Return", "Rapid Posting"}, {"Recommendation"} >>,
     filterRisk |->
        << {"Commonly Muted Terms"}, {"Hashtag Spam"}, {"Link Shorteners"},
           {"Duplicate Risk"}, {"Content Warning"}, {"Heavy Promotion"},
           {"External Platforms"}, {"Low Filter Risk"} >>]

\* the place of the check that reports the factor; 0 when no check does
CheckIndex(d, factor) ==
    IF \E i \in DOMAIN ScorerChecks[d] : factor \in ScorerChecks[d][i]
    THEN CHOOSE i \in DOMAIN ScorerChecks[d] : factor \in ScorerChecks[d][i]
    ELSE 0

Audited(d, r) ==
    /\ r.score = Max(0, Min(100, ScorerBase[d] + SumWeights(r.details)))
    /\ \A i \in DOMAIN r.details : CheckIndex(d, r.details[i].factor) >= 1
    /\ \A i, j \in DOMAIN r.details :
          i < j => CheckIndex(d, r.details[i].factor) < CheckIndex(d, r.details[j].factor)

\* C15: for the engagement, red-flag, dwell-time, author-diversity and
\* filter-risk scorers the score is the base (50, 100, 50, 100, 100) plus the
\* sum of the weights of the returned details, clamped once to 0..100; every
\* check is reported by at most one detail and the details follow the order
\* of the checks
C15_AuditInvariant ==
    /\ Returned("analyzePost") => \A d \in DOMAIN ScorerBase : Audited(d, result[d])
    /\ Returned("calculateAuthorDiversityScore") => Audited("authorDiversity", result)

\* a post whose filter-risk weights sum below -100 and whose engagement and
\* dwell-time details come from several checks
C15_Witness ==
    /\ Returned("analyzePost")
    /\ 100 + SumWeights(result.filterRisk.details) < 0
    /\ result.filterRisk.score = 0
    /\ Len(result.filterRisk.details) >= 5
    /\ Len(result.engagement.details) >= 2
    /\ Len(result.dwellTime.details) >= 2
    /\ 50 + SumWeights(result.dwellTime.details) \in 1..99

\* the reach checks of the call in the state that pushed a detail
ReachChecksReported ==
    SelectSeq(ReachSteps(text, Given.followerCount), LAMBDA step : step.details # << >>)

\* the weight of the detail is the change the check made
WeightIsChange(step) ==
    LET weight == step.details[1].weight
    IN  IF step.addIn = 0 /\ step.addOut = 0 THEN weight = 0
        ELSE weight # 0 /\ weight \in {step.addIn, step.addOut}

\* C16: in every reach result the details after the summary are those of the
\* checks, and each carries as weight the amount its check added to a
\* sub-score: non-zero and equal to the change when the check changed a
\* sub-score, 0 only when it changed nothing
C16_ReachWeightsAreChanges ==
    Returned("analyzePost") =>
        /\ Tail(result.reach.details) = AllDetails(ReachChecksReported)
        /\ result.reach.details[1].weight = 0
        /\ \A i \in DOMAIN ReachChecksReported : WeightIsChange(ReachChecksReported[i])

\* more than half of the characters (code points) of the text are emoji; an
\* emoji of the matched range takes two of the text.length code units
MostlyEmoji(t) ==
    LET emojis == MatchCount(emojiPattern, t)
    IN  2 * emojis > TextLength(t) - emojis

\* C18: a text longer than 5 that consists mostly or entirely of emoji gets
\* the red-flag detail 'Too Many Emojis' with weight -10
C18_EmojiDensityPenalised ==
    (Returned("analyzePost") /\ TextLength(text) > 5 /\ MostlyEmoji(text)) =>
        \E i \in DOMAIN result.redFlags.details :
            /\ result.redFlags.details[i].factor = "Too Many Emojis"
            /\ result.redFlags.details[i].weight = -10

CleanFactor == [redFlags |-> "Clean Content", filterRisk |-> "Low Filter Risk"]

IsClean(d, detail) ==
    detail.factor = CleanFactor[d] /\ detail.impact = "positive" /\ detail.weight = 0

\* the result is either the clean detail alone with score 100, or penalties
\* only with a score below 100
CleanOrPenalised(d, r) ==
    /\ r.details # << >>
    /\ IF \E i \in DOMAIN r.details : r.details[i].factor = CleanFactor[d]
       THEN /\ Len(r.details) = 1
            /\ IsClean(d, r.details[1])
            /\ r.score = 100
       ELSE /\ \A i \in DOMAIN r.details :
                  r.details[i].impact = "negative" /\ r.details[i].weight < 0
            /\ r.score < 100

\* C17: in the red-flag and the filter-risk result the positive weight-0 clean
\* detail is present exactly when no penalty was applied; it is then the only
\* detail and the score is 100; otherwise every detail is negative with a
\* weight below 0 and the score is below 100
C17_CleanDetail ==
    Returned("analyzePost") => \A d \in DOMAIN CleanFactor : CleanOrPenalised(d, result[d])

\* a post with a clean red-flag result and two filter-risk penalties
C17_Witness ==
    /\ Returned("analyzePost")
    /\ Len(result.redFlags.details) = 1
    /\ IsClean("redFlags", result.redFlags.details[1])
    /\ result.redFlags.score = 100
    /\ Len(result.filterRisk.details) >= 2
    /\ \A i \in DOMAIN result.filterRisk.details : result.filterRisk.details[i].weight < 0
    /\ result.filterRisk.score < 100

\* the distinct platform names mentioned in the text
DistinctPlatforms(t) ==
    UNION { IF t[i] \in DOMAIN platformNames THEN platformNames[t[i]] ELSE {} : i \in DOMAIN t }

\* C19: the filter-risk result carries 'External Platforms' (weight -10)
\* exactly when the text mentions more than one distinct platform name; one
\* platform mentioned several times does not trigger it
C19_DistinctPlatforms ==
    Returned("analyzePost") =>
        ( (\E i \in DOMAIN result.filterRisk.details :
              /\ result.filterRisk.details[i].factor = "External Platforms"
              /\ result.filterRisk.details[i].weight = -10)
          <=> Cardinality(DistinctPlatforms(text)) > 1 )

HasExternalPlatforms(r) ==
    \E i \in DOMAIN r.details :
        r.details[i].factor = "External Platforms" /\ r.details[i].weight = -10

\* C19 (amended): the filter-risk result carries 'External Platforms' (weight
\* -10) exactly when the platform names are mentioned more than once in the
\* text, every mention counted: a single platform mentioned twice triggers it,
\* a single mention does not; alone it gives the score 90
C19_PlatformMentions ==
    Returned("analyzePost") =>
        /\ HasExternalPlatforms(result.filterRisk) <=> MatchCount(platformPatterns, text) > 1
        /\ (HasExternalPlatforms(result.filterRisk) /\ Len(result.filterRisk.details) = 1) =>
               result.filterRisk.score = 90

\* 'youtube youtube': one platform, two mentions, penalised
C19_Witness ==
    /\ Returned("analyzePost")
    /\ text = << "platform", "platform" >>
    /\ Cardinality(DistinctPlatforms(text)) = 1
    /\ HasExternalPlatforms(result.filterRisk)
    /\ result.filterRisk.score = 90

\* the in-network sub-score before clamping, as C20 composes it
InNetworkSum(t) ==
    50 + 15
       + (IF Test(hasMentionsPattern, t) THEN 10 ELSE 0)
       + (IF MatchCount(personalPatterns, t) > 3 THEN 5 ELSE 0)

\* the out-of-network sub-score before clamping, as C20 composes it
OutOfNetworkSum(t, followerCount) ==
    50 + Min(10 * TestCount(broadTopics, t), 25)
       + (IF MatchCount(hashtagPattern, t) \in 1..3 THEN 10 ELSE 0)
       + 5 * TestCount(engagingFormat, t)
       + (IF followerCount > 10000 THEN 15 ELSE IF followerCount > 1000 THEN 8 ELSE 0)
       - (IF MatchCount(personalPatterns, t) > 3 THEN 10 ELSE 0)

Bounded(x) == Max(0, Min(100, x))

\* round(0.4 * in + 0.6 * out): 4 * in + 6 * out is even, so tenths never tie
RoundedMix(in, out) == (4 * in + 6 * out + 5) \div 10

\* C20: the reach score is round(0.4 * inNetwork + 0.6 * outOfNetwork) of the
\* two sub-scores composed as stated and clamped to 0..100 each, and the
\* first detail is the weight-0 summary that reports the two clamped values
C20_ReachComposition ==
    Returned("analyzePost") =>
        /\ result.reach.score =
               RoundedMix(Bounded(InNetworkSum(text)),
                          Bounded(OutOfNetworkSum(text, Given.followerCount)))
        /\ result.reach.details[1].factor = "Reach Summary"
        /\ result.reach.details[1].weight = 0
        /\ result.reach.details[1].description =
               << Bounded(InNetworkSum(text)), Bounded(OutOfNetworkSum(text, Given.followerCount)) >>

\* three topic categories, two hashtags, two format markers and 20000
\* followers: the out-of-network sum 110 is clamped to 100, the score is 86
C20_Witness ==
    /\ Returned("analyzePost")
    /\ text = << "tags2", "essay" >>
    /\ Given.followerCount = 20000
    /\ OutOfNetworkSum(text, Given.followerCount) = 110
    /\ result.reach.details[1].description = << 65, 100 >>
    /\ result.reach.score = 86

\* the four cases of the time adjustment, for h in ticks of 1/HourScale hour;
\* round(h / 2) is (ticks + HourScale) \div (2 * HourScale)
TimeAdjustment(h) ==
    IF h < HourScale THEN -10
    ELSE IF h < 4 * HourScale THEN 0
    ELSE IF h < 24 * HourScale THEN Min((h + HourScale) \div (2 * HourScale), 10)
    ELSE 15

TimeFactor(h) ==
    IF h < HourScale THEN "Rapid Posting"
    ELSE IF h < 24 * HourScale THEN "Post Spacing"
    ELSE "Fresh Return"

\* C21: exactly one of the four cases applies to hoursSinceLastPost = h
\* (h < 1: -10, 1 <= h < 4: nothing, 4 <= h < 24: +min(round(h/2), 10),
\* h >= 24: +15); the adjustment is added to 100 minus the decay penalty and
\* the sum is clamped to 0..100; no recent post with h >= 24 gives 100, three
\* recent posts with h >= 24 give 76
C21_TimeAdjustment ==
    pc = "returned" =>
        LET d == DiversityResult.details
            n == Given.recentPostCount
            h == Given.hoursSinceLastPost
            timed == { i \in DOMAIN d :
                         d[i].factor \in {"Rapid Posting", "Post Spacing", "Fresh Return"} }
        IN  /\ timed = IF TimeAdjustment(h) = 0 THEN {} ELSE {2}
            /\ \A i \in timed : /\ d[i].weight = TimeAdjustment(h)
                                /\ d[i].factor = TimeFactor(h)
            /\ DiversityResult.score = Max(0, Min(100, 100 + d[1].weight + TimeAdjustment(h)))
            /\ (n = 0 /\ h >= 24 * HourScale) => DiversityResult.score = 100
            /\ (n = 3 /\ h >= 24 * HourScale) => DiversityResult.score = 76

\* three recent posts, the last one 24 hours ago: 100 - 39 + 15
C21_Witness ==
    /\ Returned("calculateAuthorDiversityScore")
    /\ options.recentPostCount = 3
    /\ options.hoursSinceLastPost = 24 * HourScale
    /\ result.details[1].weight = -39
    /\ result.details[2].weight = 15
    /\ result.score = 76

\* the places of the suggestions of a category in the returned list
InCategory(category) ==
    { i \in DOMAIN result.suggestions : result.suggestions[i].category = category }

\* C22: for a text with a URL whose rest after removing the URLs has 10 to 49
\* characters, the suggestions contain the high-priority 'mostly a link'
\* warning, the high-priority 'too short' warning that quotes the remaining
\* length, and the medium-priority 'external link' warning, each once
C22_MostlyLinkSuggestions ==
    (/\ Returned("analyzePost")
     /\ MatchCount(urlPattern, text) > 0
     /\ WithoutUrlsLength(text) \in 10..49) =>
        /\ Cardinality(InCategory("Low Value")) = 1
        /\ \A i \in InCategory("Low Value") :
              result.suggestions[i].type = "warning" /\ result.suggestions[i].priority = "high"
        /\ Cardinality(InCategory("Content Length")) = 1
        /\ \A i \in InCategory("Content Length") :
              /\ result.suggestions[i].type = "warning"
              /\ result.suggestions[i].priority = "high"
              /\ result.suggestions[i].text = << "only chars", WithoutUrlsLength(text) >>
        /\ Cardinality(InCategory("External Link Detected")) = 1
        /\ \A i \in InCategory("External Link Detected") :
              result.suggestions[i].type = "warning" /\ result.suggestions[i].priority = "medium"

\* a link followed by 40 characters in capitals
C22_Witness ==
    /\ Returned("analyzePost")
    /\ text = << "url", "caps" >>
    /\ WithoutUrlsLength(text) = 40
    /\ InCategory("Low Value") # {}
    /\ InCategory("Content Length") # {}
    /\ InCategory("External Link Detected") # {}

\* the places of the low-priority suggestions in the returned list
LowPriority ==
    { i \in DOMAIN result.suggestions : result.suggestions[i].priority = "low" }

\* C23: the 'Strong Post' tip is returned only when no earlier check produced
\* a suggestion, the text has a question mark, the text without URLs has at
\* least 100 characters and engagement + dwell time + reach exceed 180; a
\* low-priority suggestion is always the only element of the list
C23_StrongPostAlone ==
    Returned("analyzePost") =>
        /\ InCategory("Strong Post") # {} =>
              /\ Len(ContentSuggestions(text, result.authorDiversity, result.filterRisk)) = 0
              /\ Test(hasQuestionPattern, text)
              /\ WithoutUrlsLength(text) >= 100
              /\ result.engagement.score + result.dwellTime.score + result.reach.score > 180
        /\ LowPriority # {} => Len(result.suggestions) = 1

\* a long post that asks a question and states an opinion
C23_Witness ==
    /\ Returned("analyzePost")
    /\ InCategory("Strong Post") = {1}
    /\ result.suggestions[1].priority = "low"
    /\ WithoutUrlsLength(text) >= 100

\* the contribution of the mentions of a text to its engagement score
MentionsTerm(mentions) ==
    IF mentions >= 1 /\ mentions <= 3 THEN 3 * mentions
    ELSE IF mentions > 3 THEN -5
    ELSE 0

\* the sum the claim gives for the engagement score, before clamping
EngagementSum(t) ==
    50 + Min(8 * MatchCount(questionMarks, t), 20)
       + Min(5 * MatchCountAll(ctaPatterns, t), 15)
       + Min(6 * MatchCountAll(emotionalPatterns, t), 15)
       + MentionsTerm(MatchCount(mentionPattern, t))
       + (IF Test(threadIndicators, t) THEN 10 ELSE 0)
       + (IF Test(hasNumbersPattern, t) THEN 8 ELSE 0)
       + (IF Test(storyIndicators, t) THEN 7 ELSE 0)

\* C24: the engagement score is 50 plus the capped contributions of questions,
\* calls to action, emotional words, mentions, thread, list and story
\* phrasing, clamped to 0..100; the only negative contribution is -5 for more
\* than three mentions, so the score is never below 45
C24_EngagementFormula ==
    Returned("analyzePost") =>
        /\ result.engagement.score = Max(0, Min(100, EngagementSum(text)))
        /\ result.engagement.score >= 45
        /\ \A i \in DOMAIN result.engagement.details :
              result.engagement.details[i].weight < 0 =>
                  /\ result.engagement.details[i].weight = -5
                  /\ result.engagement.details[i].factor = "Too Many Mentions"

\* more than three mentions and nothing else that counts
C24_Witness ==
    /\ Returned("analyzePost")
    /\ MatchCount(mentionPattern, text) > 3
    /\ result.engagement.score = 45
    /\ Len(result.engagement.details) = 1

\* the engagement factors of the returned analysis that have the given name
Reported(name) ==
    { i \in DOMAIN result.engagementFactors : result.engagementFactors[i].name = name }

\* C25: the repost potential analyzeText returns is
\* min(100, 15 + 10 for more than 100 characters + 15 for a thread indicator);
\* whenever the 'Thread Format' factor is reported, the +15 is included
C25_ThreadBonus ==
    Returned("analyzeText") =>
        /\ result.repostPotential
              = Min(100, 15 + (IF TextLength(text) > 100 THEN 10 ELSE 0)
                            + (IF MatchCount(threadPattern, text) > 0 THEN 15 ELSE 0))
        /\ Reported("Thread Format") # {} =>
              result.repostPotential >= 30

\* the returned suggestions that say the given words
Saying(words) ==
    { i \in DOMAIN result.suggestions : result.suggestions[i].text = words }

\* C26: generateSuggestions never returns the fallback tip 'consider adding a
\* question': a text without a question mark already has the high-priority
\* no-question suggestion, so the fallback tips are reached only for texts
\* with a question mark, and at most one 'Optimization' tip is returned
C26_QuestionFallbackUnreachable ==
    Returned("analyzePost") =>
        /\ Saying(<< "consider adding a question" >>) = {}
        /\ Cardinality(InCategory("Optimization")) <= 1
        /\ InCategory("Optimization") # {} => Test(hasQuestionPattern, text)
        /\ (~Test(hasQuestionPattern, text) /\ ~IsLinkOnly(text)) =>
              Saying(<< "no question" >>) # {}

\* nothing is found in an opinion that ends in a question: the one fallback
\* tip is the call-to-action tip
C26_Witness ==
    /\ Returned("analyzePost")
    /\ text = << "take" >>
    /\ Len(result.suggestions) = 1
    /\ InCategory("Optimization") = {1}
    /\ Saying(<< "add a call-to-action" >>) = {1}

\* what analyzePost returns for a text and options, called on a fresh page
Analysis(t, o) == analyzePost(t, o, FreshPatterns).result

\* the two calls give the same author-diversity inputs
SamePosting(o1, o2) ==
    /\ Destructure(o1).recentPostCount = Destructure(o2).recentPostCount
    /\ Destructure(o1).hoursSinceLastPost = Destructure(o2).hoursSinceLastPost

\* the analysis `other` of the same text under options o agrees with the
\* returned one in every dimension whose inputs are the same
SameOutsideFrame(other, o) ==
    /\ other.engagement = result.engagement
    /\ other.redFlags = result.redFlags
    /\ other.dwellTime = result.dwellTime
    /\ other.filterRisk = result.filterRisk
    /\ SamePosting(o, options) => other.authorDiversity = result.authorDiversity
    /\ Destructure(o).followerCount = Given.followerCount => other.reach = result.reach

\* C27: each dimension depends only on its own inputs: for the same text the
\* engagement, red-flag, dwell-time and filter-risk results are the same under
\* all options, author diversity is the same when only followerCount differs,
\* reach is the same when only recentPostCount or hoursSinceLastPost differ,
\* and author diversity is the same for every text
C27_DimensionFrames ==
    Returned("analyzePost") =>
        /\ \A o \in (IF text \in CoreTexts THEN CoreOptions ELSE {Omitted}) :
              SameOutsideFrame(Analysis(text, o), o)
        /\ \A t \in (IF text \in CoreTexts THEN CoreTexts ELSE {<< >>}) :
              Analysis(t, options).authorDiversity = result.authorDiversity

\* a call whose posting history differs from the default and whose follower
\* count is the default: reach is that of the default call, author diversity
\* is not
C27_Witness ==
    /\ Returned("analyzePost")
    /\ text = << "long" >>
    /\ options = Options(12, HourScale \div 2, Undefined)
    /\ result.reach = Analysis(text, Omitted).reach
    /\ result.authorDiversity.score < Analysis(text, Omitted).authorDiversity.score
    /\ result.engagement = Analysis(<< "long" >>, Options(3, 5 * HourScale, 5000)).engagement

\* C28: the author-diversity score is at least 45 for every recentPostCount,
\* so its grade is never F; from 9 hours since the last post on it is at
\* least 60, so the 'Posting Frequency' warning is not returned then, the
\* default of 24 hours included
C28_DiversityFloor ==
    pc = "returned" =>
        /\ DiversityResult.score >= 45
        /\ DiversityResult.grade # "F"
        /\ Given.hoursSinceLastPost >= 9 * HourScale => DiversityResult.score >= 60
        /\ (fn = "analyzePost" /\ Given.hoursSinceLastPost >= 9 * HourScale) =>
              InCategory("Posting Frequency") = {}

\* twelve recent posts and no hoursSinceLastPost given
C28_Witness ==
    /\ Returned("analyzePost")
    /\ options.recentPostCount = 12
    /\ options.hoursSinceLastPost = Undefined
    /\ ~IsLinkOnly(text)
    /\ result.authorDiversity.score = 70
    /\ result.authorDiversity.details[1].weight = -45
    /\ InCategory("Posting Frequency") = {}

\* the callback address carries a state, and it is the one login saved
StateMatchesSaved ==
    Truthy(params.state) /\ params.state = sessionStorage.oauth_state

\* C29: handleCallback sends the token request only when the state of the
\* callback address equals a state that login saved; in every other case
\* (error parameter, no code, absent or different state, no code verifier) it
\* sends no token request, stores no token or user, and clears the stored
\* auth data
C29_TokenRequestNeedsSavedState ==
    [][(callback.pc = "handleCallback" /\ callback'.pc \in {"exchangeCodeForToken", "onError"}) =>
          IF /\ StateMatchesSaved
             /\ ~Truthy(params.error)
             /\ Truthy(params.code)
             /\ Truthy(localStorage.x_code_verifier)
          THEN callback'.pc = "exchangeCodeForToken"
          ELSE /\ callback'.pc = "onError"
               /\ localStorage' = EmptyLocalStorage]_allVars

\* exactly one of analyzeError and urlAnalysisResult is set
ExactlyOneOutcome == (analyzeError # null) # (urlAnalysisResult # NoResult)

\* a step of the loaded page in which a run of handleAnalyzeUrl ends: the
\* pending fetch is answered, or the run sets its outcome before any await
RunEnds ==
    /\ loaded /\ loaded'
    /\ analyzeUrl' = Idle
    /\ \/ analyzeUrl.pc = "fetch"
       \/ analyzeError' # analyzeError
       \/ urlAnalysisResult' # urlAnalysisResult

\* a step that leaves what a run of handleAnalyzeUrl sets as it is
RunUntouched ==
    UNCHANGED << analyzeUrl, isAnalyzing, analyzeError, urlAnalysisResult >>

\* C30: every run of handleAnalyzeUrl on a non-blank input ends, on each of
\* its paths, with isAnalyzing false and exactly one of analyzeError and
\* urlAnalysisResult set; isAnalyzing is true exactly while the fetch of a run
\* is pending, and while it is true no second run starts from the form
C30_AnalyzeUrlRuns ==
    /\ [](isAnalyzing <=> analyzeUrl.pc = "fetch")
    /\ [][RunEnds => (~isAnalyzing' /\ ExactlyOneOutcome')]_allVars
    /\ [][(isAnalyzing /\ loaded') => (RunUntouched \/ RunEnds)]_allVars
    /\ (analyzeUrl.pc = "fetch") ~> (analyzeUrl.pc = "idle" /\ ~isAnalyzing)

\* a run that fetched its post and analysed it
C30_Witness ==
    /\ Authenticated
    /\ analyzeUrl = Idle
    /\ ~isAnalyzing
    /\ extractPostId(urlInput) # null
    /\ analyzeError = null
    /\ urlAnalysisResult # NoResult
    /\ urlAnalysisResult = result

====
